---- MODULE Spec2Model ----
(***************************************************************************)
(* Time-coordinate resolution of the wildfire forecast API.                *)
(*                                                                         *)
(* A timestamp (pandas.Timestamp, timezone-naive) is a record              *)
(*   [sec |-> whole seconds since 00:00:00 of day 0,                       *)
(*    us  |-> the microsecond field (0..999999),                           *)
(*    ns  |-> the nanosecond field (0..999)].                              *)
(* An ISO-8601 string is a record                                          *)
(*   [wall  |-> the clock reading that is written,                         *)
(*    aware |-> TRUE when a zone designator is written ('Z' or +hh:mm),    *)
(*    off   |-> the written UTC offset in seconds (0 for 'Z' and for none)]*)
(***************************************************************************)
EXTENDS Integers, Sequences, FiniteSets, TLC

VARIABLES
    index,          \* dataset identifier served by the store: "pof" or "fopi"
    base_time,      \* ds["base_time"].values: the run axis, in store order
    forecast_time,  \* ds["forecast_time"].values: one row of valid times per run
    lat,            \* ds["lat"].values: grid latitudes, in whole degrees
    lon,            \* ds["lon"].values: grid longitudes, in whole degrees
    field,          \* ds[var_name].values: field[b][i][j] at run b, lat[i], lon[j]
    zarr_store,     \* the Zarr directory at each store path, as found on disk
    file_lock,      \* FileLock(lock_path) of each store path: its holder, or NoCaller
    calls,          \* the ingestion call each caller is in, and where it stands
    resp            \* the request last served and its response

vars == <<index, base_time, forecast_time, lat, lon, field, zarr_store, file_lock, calls, resp>>

\* The handlers only read the store
store == <<index, base_time, forecast_time, lat, lon, field, zarr_store, file_lock, calls>>

-----------------------------------------------------------------------------
(* Calendar arithmetic of pandas.Timestamp                                 *)

SecPerHour == 60 * 60
SecPerDay == 24 * SecPerHour

TS(s) == [sec |-> s, us |-> 0, ns |-> 0]

At(day, hour) == TS(day * SecPerDay + hour * SecPerHour)

\* Timestamp.date()
DateOf(ts) == ts.sec \div SecPerDay

\* Timestamp.hour
HourOf(ts) == (ts.sec % SecPerDay) \div SecPerHour

\* Timestamp.replace(hour=h)
ReplaceHour(ts, h) == [ts EXCEPT !.sec = ts.sec - HourOf(ts) * SecPerHour + h * SecPerHour]

\* Timestamp.replace(microsecond=0): the nanosecond field is not an argument
\* of the call and keeps its value
ReplaceMicrosecond0(ts) == [ts EXCEPT !.us = 0]

\* Timestamp.floor("D")
FloorD(ts) == TS(DateOf(ts) * SecPerDay)

\* Timestamp.__lt__
Lt(a, b) ==
    \/ a.sec < b.sec
    \/ a.sec = b.sec /\ a.us < b.us
    \/ a.sec = b.sec /\ a.us = b.us /\ a.ns < b.ns

Leq(a, b) == a = b \/ Lt(a, b)

\* ts - pd.Timedelta(days=n)
MinusDays(ts, n) == [ts EXCEPT !.sec = ts.sec - n * SecPerDay]

WholeSecond(ts) == ts.us = 0 /\ ts.ns = 0

-----------------------------------------------------------------------------
(* Sequence helpers (list comprehensions, slices, np.where)                *)

Range(s) == {s[i] : i \in 1..Len(s)}

Min2(a, b) == IF a < b THEN a ELSE b

\* s[:n]
Take(s, n) == SubSeq(s, 1, Min2(n, Len(s)))

\* [f(x) for x in s]
MapSeq(F(_), s) == [i \in 1..Len(s) |-> F(s[i])]

\* [x for x in s if P(x)]
RECURSIVE FilterSeq(_, _)
FilterSeq(P(_), s) ==
    IF s = <<>> THEN <<>>
    ELSE IF P(Head(s)) THEN <<Head(s)>> \o FilterSeq(P, Tail(s))
    ELSE FilterSeq(P, Tail(s))

\* np.where(vals == x)[0]: the positions (1-based here) holding x, ascending
RECURSIVE WhereFrom(_, _, _)
WhereFrom(vals, x, i) ==
    IF i > Len(vals) THEN <<>>
    ELSE IF vals[i] = x THEN <<i>> \o WhereFrom(vals, x, i + 1)
    ELSE WhereFrom(vals, x, i + 1)

Where(vals, x) == WhereFrom(vals, x, 1)

-----------------------------------------------------------------------------
(* Parsing and rendering of ISO-8601 strings                               *)

IsoStr(w, a, o) == [wall |-> w, aware |-> a, off |-> o]

\* pd.to_datetime(s) / pd.Timestamp(s) followed by tz_convert("UTC").tz_localize(None)
ToUtcNaive(s) == [s.wall EXCEPT !.sec = s.wall.sec - s.off]

\* _parse_naive
ParseNaive(s) ==
    IF s.aware THEN ReplaceMicrosecond0(ToUtcNaive(s))
    ELSE ReplaceMicrosecond0(s.wall)

\* Variant of _parse_iso_naive that converts to UTC before dropping the zone
ParseIsoNaiveConvertsToUtc(s) ==
    IF s.aware THEN ReplaceMicrosecond0(ToUtcNaive(s)) ELSE ReplaceMicrosecond0(s.wall)

\* _parse_iso_naive: tz_localize(None) drops the zone and keeps the clock reading
ParseIsoNaive(s) == ReplaceMicrosecond0(s.wall)

\* _normalize_times
NormalizeTimes(b, f) == <<ParseNaive(b), ParseNaive(f)>>

\* _iso_naive_utc (imported by by_date and by_forecast): a timezone-naive value
\* at second precision, read as UTC wall-clock
IsoNaiveUtc(s) == TS(s.wall.sec - s.off)

\* _iso_utc: tz_localize("UTC") of a naive value, isoformat(), "+00:00" -> "Z"
IsoUtc(ts) == IsoStr(ts, TRUE, 0)

\* _iso_utc_str (imported by by_forecast)
IsoUtcStr(ts) == IsoStr(ts, TRUE, 0)

\* Timestamp.isoformat() of a naive value: no zone designator
IsoFormat(ts) == IsoStr(ts, FALSE, 0)

\* pd.Timestamp(bv).tz_localize(None).replace(microsecond=0) over a coordinate array
NormVals(vals) == MapSeq(ReplaceMicrosecond0, vals)

\* _naive_utc_ndarray (imported by tooltip): naive UTC values, unchanged labels
NaiveUtcNdarray(vals) == vals

-----------------------------------------------------------------------------
(* Run (base_time) matching                                                *)

\* Variant of the same-day filter that lists runs of any date
SameDayAnyDate(base_vals, requested) == base_vals

\* [bv for bv in base_vals if bv.date() == requested.date()]
SameDay(base_vals, requested) ==
    LET OnDate(bv) == DateOf(bv) = DateOf(requested)
    IN FilterSeq(OnDate, base_vals)

\* by_date: alt_hour = 12 if requested.hour == 0 else 0; requested.replace(hour=alt_hour)
AltLabel(requested) ==
    ReplaceHour(requested, IF HourOf(requested) = 0 THEN 12 ELSE 0)

\* by_date: same_day[:3]
ByDateHintLen == 3

\* by_date, lines 91-117: exact match, then the alternate label, then 404
ByDateMatch(vals, requested) ==
    LET base_vals == NormVals(vals)
        matches == Where(base_vals, requested)
        alt == AltLabel(requested)
        alt_matches == Where(base_vals, alt)
    IN IF matches # <<>>
       THEN [found |-> TRUE, idx |-> matches[1], matched_base |-> base_vals[matches[1]],
             alt |-> <<>>, hint |-> <<>>]
       ELSE IF alt_matches # <<>>
       THEN [found |-> TRUE, idx |-> alt_matches[1],
             matched_base |-> base_vals[alt_matches[1]],
             alt |-> <<alt>>, hint |-> <<>>]
       ELSE [found |-> FALSE, idx |-> 0, matched_base |-> requested,
             alt |-> <<alt>>,
             hint |-> Take(SameDay(base_vals, requested), ByDateHintLen)]

\* _match_base_time: same_day[:5]
MatchBaseHintLen == 5

\* _match_base_time: the 00Z gate, then the exact match
MatchBaseTime(vals, req_base) ==
    LET base_vals == NormVals(vals)
        match_idx == Where(base_vals, req_base)
    IN IF HourOf(req_base) # 0
       THEN [ok |-> FALSE, idx |-> 0, val |-> req_base, hint |-> <<>>]
       ELSE IF match_idx = <<>>
       THEN [ok |-> FALSE, idx |-> 0, val |-> req_base,
             hint |-> Take(SameDay(base_vals, req_base), MatchBaseHintLen)]
       ELSE [ok |-> TRUE, idx |-> match_idx[1], val |-> base_vals[match_idx[1]],
             hint |-> <<>>]

-----------------------------------------------------------------------------
(* Valid-time (forecast_time) matching                                     *)

\* ds.sel(base_time=label): the position of the label on the stored run axis,
\* <<>> when the label is absent (KeyError)
SelBaseTime(vals, label) == Where(vals, label)

\* _match_forecast_time: fcst_vals[:5]
MatchFcstHintLen == 5

\* Variant of _match_forecast_time that falls back to the nearest valid time
MatchForecastTimeNearest(vals, rows, matched_base, req_fcst) ==
    LET sel == SelBaseTime(vals, matched_base)
        fcst_vals == IF sel = <<>> THEN <<>> ELSE NormVals(rows[sel[1]])
        Dist(v) == IF v.sec < req_fcst.sec THEN req_fcst.sec - v.sec ELSE v.sec - req_fcst.sec
        nearest == CHOOSE v \in Range(fcst_vals) : \A w \in Range(fcst_vals) : Dist(v) <= Dist(w)
    IN IF sel = <<>> \/ fcst_vals = <<>>
       THEN [ok |-> FALSE, val |-> req_fcst, hint |-> <<>>]
       ELSE IF Where(fcst_vals, req_fcst) = <<>>
       THEN [ok |-> TRUE, val |-> nearest, hint |-> <<>>]
       ELSE [ok |-> TRUE, val |-> req_fcst, hint |-> <<>>]

\* _match_forecast_time
MatchForecastTime(vals, rows, matched_base, req_fcst) ==
    LET sel == SelBaseTime(vals, matched_base)
        fcst_vals == IF sel = <<>> THEN <<>> ELSE NormVals(rows[sel[1]])
    IN IF sel = <<>>
       THEN [ok |-> FALSE, val |-> req_fcst, hint |-> <<>>]
       ELSE IF Where(fcst_vals, req_fcst) = <<>>
       THEN [ok |-> FALSE, val |-> req_fcst, hint |-> Take(fcst_vals, MatchFcstHintLen)]
       ELSE [ok |-> TRUE, val |-> req_fcst, hint |-> <<>>]

\* _slice_field: next(i for i, v in enumerate(fcst_vals) if v == matched_fcst);
\* 0 stands for StopIteration / KeyError
SliceField(vals, rows, matched_base, matched_fcst) ==
    LET sel == SelBaseTime(vals, matched_base)
        hits == IF sel = <<>> THEN <<>> ELSE Where(NormVals(rows[sel[1]]), matched_fcst)
    IN IF hits = <<>> THEN 0 ELSE hits[1]

-----------------------------------------------------------------------------
(* Per-endpoint collapsing of a run's valid times                          *)

\* by_date: if len(daily) >= 10: break
HorizonDays == 10

\* Variant of the daily loop that breaks one entry late
RECURSIVE DailyLoopLateBreak(_, _)
DailyLoopLateBreak(ft_vals, daily) ==
    IF ft_vals = <<>> THEN daily
    ELSE LET d == FloorD(Head(ft_vals))
             daily2 == IF d \in Range(daily) THEN daily ELSE Append(daily, d)
         IN IF Len(daily2) > HorizonDays THEN daily2
            ELSE DailyLoopLateBreak(Tail(ft_vals), daily2)

\* by_date, "pof" branch: the loop over ft_vals with its early break
RECURSIVE DailyLoop(_, _)
DailyLoop(ft_vals, daily) ==
    IF ft_vals = <<>> THEN daily
    ELSE LET d == FloorD(Head(ft_vals))
             daily2 == IF d \in Range(daily) THEN daily ELSE Append(daily, d)
         IN IF Len(daily2) >= HorizonDays THEN daily2
            ELSE DailyLoop(Tail(ft_vals), daily2)

DailyUnique(ft_vals) == DailyLoop(ft_vals, <<>>)

\* Variant of the de-duplicating loop that appends every value
RECURSIVE OrderedLoopNoSeen(_, _)
OrderedLoopNoSeen(ft_vals, ordered_unique) ==
    IF ft_vals = <<>> THEN ordered_unique
    ELSE OrderedLoopNoSeen(Tail(ft_vals), Append(ordered_unique, Head(ft_vals)))

\* by_date, other datasets: de-duplicate, keep forecast_index order
RECURSIVE OrderedLoop(_, _)
OrderedLoop(ft_vals, ordered_unique) ==
    IF ft_vals = <<>> THEN ordered_unique
    ELSE OrderedLoop(Tail(ft_vals),
                     IF Head(ft_vals) \in Range(ordered_unique) THEN ordered_unique
                     ELSE Append(ordered_unique, Head(ft_vals)))

OrderedUnique(ft_vals) == OrderedLoop(ft_vals, <<>>)

\* api/routes/by_date.py, other datasets: sorted(set(ft_vals))
RECURSIVE SortedSet(_)
SortedSet(S) ==
    IF S = {} THEN <<>>
    ELSE LET m == CHOOSE x \in S : \A y \in S : Leq(x, y)
         IN <<m>> \o SortedSet(S \ {m})

SortedUnique(ft_vals) == SortedSet(Range(ft_vals))

\* by_forecast: if as_utc.hour == 0 or as_utc < best_utc: by_date[d] = (orig, as_utc)
ReplacesBest(as_utc, best_utc) == HourOf(as_utc) = 0 \/ Lt(as_utc, best_utc)

\* by_forecast: the loop filling the dict by_date (date -> chosen label)
RECURSIVE GroupByDate(_, _)
GroupByDate(ft_vals, by_date) ==
    IF ft_vals = <<>> THEN by_date
    ELSE LET v == Head(ft_vals)
             d == DateOf(v)
         IN GroupByDate(Tail(ft_vals),
                IF d \notin DOMAIN by_date THEN by_date @@ (d :> v)
                ELSE IF ReplacesBest(v, by_date[d]) THEN [by_date EXCEPT ![d] = v]
                ELSE by_date)

\* sorted(by_date.keys())
RECURSIVE SortedSeq(_)
SortedSeq(S) ==
    IF S = {} THEN <<>>
    ELSE LET m == CHOOSE x \in S : \A y \in S : x <= y
         IN <<m>> \o SortedSeq(S \ {m})

\* by_forecast: verification - pd.Timedelta(days=9)
WindowDays == 9

\* Variant of the window test that reaches one day further back
InWindowTenBack(d, verification) ==
    DateOf(MinusDays(verification, WindowDays + 1)) <= d /\ d <= DateOf(verification)

\* start_d <= d <= end_d
InWindow(d, verification) ==
    DateOf(MinusDays(verification, WindowDays)) <= d /\ d <= DateOf(verification)

\* by_forecast, lines 39-67: the labels returned for a run's row
EvolutionLabels(ft_vals, verification) ==
    LET by_date == GroupByDate(ft_vals, <<>>)
        ordered == SortedSeq(DOMAIN by_date)
        Kept(d) == InWindow(d, verification)
        Chosen(d) == ReplaceMicrosecond0(by_date[d])
    IN MapSeq(Chosen, FilterSeq(Kept, ordered))

\* Timestamp.strftime("%Y-%m-%dT%H:%M:%SZ")
Strftime(ts) == IsoStr(TS(ts.sec), TRUE, 0)

-----------------------------------------------------------------------------
(* Requests and responses                                                  *)

Resp(op, req, status, base, times, hint, alt, idx) ==
    [op |-> op, req |-> req, status |-> status, base |-> base, times |-> times,
     hint |-> hint, alt |-> alt, idx |-> idx]

NoResp == Resp("none", <<>>, "none", <<>>, <<>>, <<>>, <<>>, 0)

\* GET /{index}/by_date
GetForecastTime(base_time_str) ==
    LET requested == IsoNaiveUtc(base_time_str)
        m == ByDateMatch(base_time, requested)
        ft_vals == NormVals(forecast_time[m.idx])
        out_times == IF index = "pof" THEN DailyUnique(ft_vals) ELSE OrderedUnique(ft_vals)
    IN /\ resp' = IF m.found
                  THEN Resp("by_date", <<base_time_str>>, "200", <<IsoUtc(m.matched_base)>>,
                            MapSeq(IsoUtc, out_times), <<>>, <<>>, m.idx)
                  ELSE Resp("by_date", <<base_time_str>>, "404", <<>>, <<>>,
                            MapSeq(IsoUtc, m.hint), MapSeq(IsoUtc, m.alt), 0)
       /\ UNCHANGED store

\* GET /{index}/by_date as served by api/routes/by_date.py
GetForecastSteps(base_time_str) ==
    LET requested == ParseNaive(base_time_str)
        m == ByDateMatch(base_time, requested)
        sel == SelBaseTime(base_time, m.matched_base)
        ft_vals == NormVals(forecast_time[sel[1]])
        out_times == IF index = "pof" THEN DailyUnique(ft_vals) ELSE SortedUnique(ft_vals)
    IN /\ resp' = IF ~m.found
                  THEN Resp("by_date_api", <<base_time_str>>, "404", <<>>, <<>>,
                            MapSeq(IsoUtc, m.hint), MapSeq(IsoUtc, m.alt), 0)
                  ELSE IF sel = <<>>
                  THEN Resp("by_date_api", <<base_time_str>>, "400", <<>>, <<>>, <<>>, <<>>, 0)
                  ELSE Resp("by_date_api", <<base_time_str>>, "200", <<IsoUtc(m.matched_base)>>,
                            MapSeq(IsoUtc, out_times), <<>>, <<>>, sel[1])
       /\ UNCHANGED store

\* GET /{index}/by_forecast
GetForecastEvolution(base_time_str) ==
    LET req_base == NormalizeTimes(base_time_str, base_time_str)[1]
        m == MatchBaseTime(base_time, req_base)
        sel == SelBaseTime(base_time, m.val)
        verification == IsoNaiveUtc(base_time_str)
    IN /\ resp' = IF m.ok /\ sel # <<>>
                  THEN Resp("by_forecast", <<base_time_str>>, "200", <<Strftime(m.val)>>,
                            MapSeq(IsoUtcStr, EvolutionLabels(forecast_time[sel[1]], verification)),
                            <<>>, <<>>, sel[1])
                  ELSE Resp("by_forecast", <<base_time_str>>, "400", <<>>, <<>>,
                            MapSeq(IsoFormat, m.hint), <<>>, 0)
       /\ UNCHANGED store

\* generate_heatmap_image, up to the slice handed to the spatial subsetter
GenerateHeatmapImage(base_time_str, forecast_time_str) ==
    LET req == NormalizeTimes(base_time_str, forecast_time_str)
        mb == MatchBaseTime(base_time, req[1])
        mf == MatchForecastTime(base_time, forecast_time, mb.val, req[2])
        idx == SliceField(base_time, forecast_time, mb.val, mf.val)
    IN /\ resp' = IF ~mb.ok
                  THEN Resp("heatmap", <<base_time_str, forecast_time_str>>, "raise", <<>>, <<>>,
                            MapSeq(IsoFormat, mb.hint), <<>>, 0)
                  ELSE IF ~mf.ok
                  THEN Resp("heatmap", <<base_time_str, forecast_time_str>>, "raise",
                            <<IsoFormat(mb.val)>>, <<>>, MapSeq(IsoFormat, mf.hint), <<>>, 0)
                  ELSE Resp("heatmap", <<base_time_str, forecast_time_str>>, "200",
                            <<IsoFormat(mb.val)>>, <<IsoFormat(mf.val)>>, <<>>, <<>>, idx)
       /\ UNCHANGED store

\* GET /{index}/tooltip, up to the lead index handed to the point lookup
GetTooltipData(base_time_str, forecast_time_str) ==
    LET req == NormalizeTimes(base_time_str, forecast_time_str)
        sel == SelBaseTime(NaiveUtcNdarray(base_time), req[1])
        fcst_vals == IF sel = <<>> THEN <<>> ELSE NaiveUtcNdarray(forecast_time[sel[1]])
        matches == Where(fcst_vals, req[2])
    IN /\ resp' = IF sel = <<>> \/ matches = <<>>
                  THEN Resp("tooltip", <<base_time_str, forecast_time_str>>, "400", <<>>, <<>>,
                            <<>>, <<>>, 0)
                  ELSE Resp("tooltip", <<base_time_str, forecast_time_str>>, "200",
                            <<Strftime(req[1])>>, <<Strftime(req[2])>>, <<>>, <<>>, matches[1])
       /\ UNCHANGED store

\* GET /{index}/time_series (run-to-run statistics): the runs kept by the
\* start_base / end_base window; each bound is <<>> when the parameter is absent
TimeSeries(start_base, end_base) ==
    LET base_vals == NormVals(base_time)
        FromStart(bt) == start_base = <<>> \/ Leq(ParseIsoNaive(start_base[1]), bt)
        UpToEnd(bt) == end_base = <<>> \/ Leq(bt, ParseIsoNaive(end_base[1]))
        kept == FilterSeq(UpToEnd, FilterSeq(FromStart, base_vals))
    IN /\ resp' = IF kept = <<>>
                  THEN Resp("time_series", start_base \o end_base, "404", <<>>, <<>>, <<>>, <<>>,
                            Len(start_base))
                  ELSE Resp("time_series", start_base \o end_base, "200", <<>>,
                            MapSeq(IsoUtc, kept), <<>>, <<>>, Len(start_base))
       /\ UNCHANGED store

\* _parse_naive applied to a request string
ParseNaiveCall(s) ==
    /\ resp' = Resp("_parse_naive", <<s>>, "200", <<IsoFormat(ParseNaive(s))>>, <<>>, <<>>,
                    <<>>, 0)
    /\ UNCHANGED store

\* _parse_naive applied to the ISO rendering of a value it returned
ParseNaiveAgain ==
    /\ resp.op = "_parse_naive"
    /\ resp.idx = 0
    /\ resp' = Resp("_parse_naive", resp.base, "200",
                    <<IsoFormat(ParseNaive(resp.base[1]))>>, <<>>, <<>>, <<>>, 1)
    /\ UNCHANGED store

\* _parse_iso_naive applied to a request string
ParseIsoNaiveCall(s) ==
    /\ resp' = Resp("_parse_iso_naive", <<s>>, "200", <<IsoFormat(ParseIsoNaive(s))>>, <<>>,
                    <<>>, <<>>, 0)
    /\ UNCHANGED store

\* _normalize_times applied to a pair of request strings
NormalizeTimesCall(b, f) ==
    /\ resp' = Resp("_normalize_times", <<b, f>>, "200",
                    <<IsoFormat(NormalizeTimes(b, f)[1])>>,
                    <<IsoFormat(NormalizeTimes(b, f)[2])>>, <<>>, <<>>, 0)
    /\ UNCHANGED store

-----------------------------------------------------------------------------
(* Floats of the field and of the JSON bodies                              *)

Abs(n) == IF n < 0 THEN 0 - n ELSE n

RECURSIVE Gcd(_, _)
Gcd(a, b) == IF b = 0 THEN a ELSE Gcd(b, a % b)

\* A finite float, kept exactly as the fraction n/d in lowest terms
Num(n, d) ==
    LET g == Gcd(Abs(n), Abs(d))
        sgn == IF d < 0 THEN 0 - 1 ELSE 1
    IN [kind |-> "num", num |-> sgn * (n \div g), den |-> sgn * (d \div g)]

\* np.nan / float("nan")
NaN == [kind |-> "nan", num |-> 0, den |-> 1]

\* Python None, rendered as JSON null
None == [kind |-> "none", num |-> 0, den |-> 1]

\* A finite value of the field
Cell(v) == Num(v, 1)

IsFinite(x) == x.kind = "num"

\* a - b in float arithmetic: NaN when either side is NaN
Sub(a, b) ==
    IF IsFinite(a) /\ IsFinite(b)
    THEN Num(a.num * b.den - b.num * a.den, a.den * b.den)
    ELSE NaN

\* a <= b for finite floats
LeqNum(a, b) == a.num * b.den <= b.num * a.den

-----------------------------------------------------------------------------
(* Stores on disk and their ingestion: utils/zarr_loader.py, utils/test.py *)

\* Store paths: ZARR_PATH / index / f"{index}_{timestamp}.zarr", written by
\* convert_nc_to_zarr, and ZARR_PATH / index / f"{index}.zarr", written by
\* convert_db_records_to_unique_zarr
RunStorePath == "pof/pof_2025071000.zarr"

UnifiedStorePath == "pof/pof.zarr"

StorePaths == {RunStorePath, UnifiedStorePath}

Callers == {"c1", "c2"}

NoCaller == "none"

\* zarr_store.exists() is False
Absent == [exists |-> FALSE, complete |-> FALSE, runs |-> 0, stamp |-> 0]

\* no call in progress
NoCall == [pc |-> "idle", path |-> "none", force |-> FALSE, ret |-> "none",
           found |-> FALSE, removed |-> FALSE, wrote |-> FALSE]

\* a serving process with nothing ingested and no ingestion under way
DiskAtRest ==
    /\ zarr_store = [p \in StorePaths |-> Absent]
    /\ file_lock = [p \in StorePaths |-> NoCaller]
    /\ calls = [c \in Callers |-> NoCall]

-----------------------------------------------------------------------------
(* Bounds of the model                                                     *)

MaxRuns == 4
MaxLead == 3
LongLead == 12
MaxFrac == 1

\* The requested run date: far enough from day 0 for the whole window to exist
BaseDay == WindowDays + 1

AtSec(day, s) == TS(day * SecPerDay + s)

\* a row shifted by n calendar days
ShiftDays(row, n) == [i \in 1..Len(row) |-> [row[i] EXCEPT !.sec = @ + n * SecPerDay]]

SeqsUpTo(S, n) == UNION {[1..k -> S] : k \in 0..n}

DistinctSeqsUpTo(S, n) ==
    {q \in SeqsUpTo(S, n) : \A i, j \in 1..Len(q) : q[i] = q[j] => i = j}

\* Run labels: five cycles on the requested date, one on the next date
RunLabels ==
    {At(BaseDay, 0), At(BaseDay, 6), At(BaseDay, 12), At(BaseDay, 15), At(BaseDay, 18),
     At(BaseDay + 1, 0)}

\* Clock readings of run requests: stored and absent labels, off-cycle hours,
\* a half-hour and a one-second displacement
RunReqWalls ==
    {At(BaseDay, 0), At(BaseDay, 6), At(BaseDay, 12), At(BaseDay + 1, 0), At(BaseDay + 1, 12),
     AtSec(BaseDay, 30 * 60), AtSec(BaseDay, 12 * SecPerHour + 1)}

\* Written with 'Z', without designator, and once with a +02:00 offset
RunReqs ==
    {IsoStr(w, a, 0) : w \in RunReqWalls, a \in BOOLEAN}
        \cup {IsoStr(At(BaseDay, 2), TRUE, 2 * SecPerHour)}

RunFcstReqs == {IsoUtc(At(BaseDay, 0)), IsoUtc(At(BaseDay + 1, 0))}

WindowReqs ==
    {<<>>, <<IsoUtc(At(BaseDay, 12))>>, <<IsoStr(At(BaseDay, 14), TRUE, 2 * SecPerHour)>>}

\* Valid-time labels: below the window, on its first day, three on the
\* requested date, one on the next date
FcstLabels ==
    {At(0, 12), At(1, 6), At(BaseDay, 0), AtSec(BaseDay, 30 * 60), At(BaseDay, 3),
     At(BaseDay + 1, 0)}

\* Daily rows longer than the horizon: ascending from day 0, the same
\* descending, ascending from the run date
LongRows ==
    { [j \in 1..LongLead |-> At(j - 1, 0)],
      [j \in 1..LongLead |-> At(LongLead - j, 0)],
      [j \in 1..LongLead |-> At(BaseDay + j - 1, 0)] }

LeadRows == SeqsUpTo(FcstLabels, MaxLead) \cup LongRows

LeadAxes == {<<At(BaseDay, 0)>>, <<At(BaseDay, 12)>>, <<At(BaseDay + 1, 0), At(BaseDay, 0)>>}

LeadBaseReqs ==
    {IsoUtc(At(BaseDay, 0)), IsoFormat(At(BaseDay, 0)), IsoUtc(At(BaseDay, 12)),
     IsoUtc(At(BaseDay + 1, 0))}

LeadFcstReqs ==
    {IsoUtc(v) : v \in FcstLabels}
        \cup {IsoUtc(AtSec(BaseDay, 1)), IsoUtc([At(BaseDay, 0) EXCEPT !.ns = 1])}

\* Request strings given to the parsers
ParseWalls ==
    {[sec |-> d * SecPerDay + t, us |-> u, ns |-> n] :
        d \in {BaseDay, BaseDay + 1},
        t \in {0, 1 * SecPerHour, 12 * SecPerHour + 34 * 60 + 56},
        u \in 0..MaxFrac, n \in 0..MaxFrac}

ParseInputs ==
    {IsoStr(w, FALSE, 0) : w \in ParseWalls}
        \cup {IsoStr(w, TRUE, o) : w \in ParseWalls,
                                   o \in {0, 2 * SecPerHour, 0 - (5 * SecPerHour + 30 * 60)}}

\* Valid-time strings paired with them in _normalize_times: one clock reading
\* with every fraction, written with 'Z' and without designator
ParseFcstInputs ==
    {s \in ParseInputs : s.off = 0 /\ s.wall.sec = (BaseDay + 1) * SecPerDay + SecPerHour}

-----------------------------------------------------------------------------
(* Run resolution: many run axes, one lead per run                         *)

Init ==
    /\ index \in {"pof", "fopi"}
    /\ base_time \in DistinctSeqsUpTo(RunLabels, MaxRuns)
    /\ forecast_time = [i \in 1..Len(base_time) |-> <<base_time[i]>>]
    /\ lat = <<0>>
    /\ lon = <<0>>
    /\ field = [b \in 1..Len(base_time) |-> <<<<Cell(0)>>>>]
    /\ DiskAtRest
    /\ resp = NoResp

\* Every call is served on its own against the store as loaded: a behaviour
\* is a store and one request
Idle == resp = NoResp

Next ==
    \/ \E b \in RunReqs : Idle /\ GetForecastTime(b)
    \/ \E b \in RunReqs : Idle /\ GetForecastEvolution(b)
    \/ \E b \in RunReqs, f \in RunFcstReqs : Idle /\ GenerateHeatmapImage(b, f)
    \/ \E b \in RunReqs, f \in RunFcstReqs : Idle /\ GetTooltipData(b, f)
    \/ \E sb \in WindowReqs, eb \in WindowReqs : Idle /\ TimeSeries(sb, eb)

Spec == Init /\ [][Next]_vars

(* Lead resolution: few run axes, arbitrary rows of valid times            *)

InitLead ==
    /\ index \in {"pof", "fopi"}
    /\ base_time \in LeadAxes
    /\ \E row \in LeadRows :
          forecast_time = [i \in 1..Len(base_time) |->
                              ShiftDays(row, DateOf(base_time[i]) - BaseDay)]
    /\ lat = <<0>>
    /\ lon = <<0>>
    /\ field = [b \in 1..Len(base_time) |-> <<<<Cell(0)>>>>]
    /\ DiskAtRest
    /\ resp = NoResp

NextLead ==
    \/ \E b \in LeadBaseReqs : Idle /\ GetForecastTime(b)
    \/ \E b \in LeadBaseReqs : Idle /\ GetForecastSteps(b)
    \/ \E b \in LeadBaseReqs : Idle /\ GetForecastEvolution(b)
    \/ \E b \in LeadBaseReqs, f \in LeadFcstReqs : Idle /\ GenerateHeatmapImage(b, f)
    \/ \E b \in LeadBaseReqs, f \in LeadFcstReqs : Idle /\ GetTooltipData(b, f)

SpecLead == InitLead /\ [][NextLead]_vars

(* The parsers as pure functions of the request string                     *)

InitParse ==
    /\ index = "pof"
    /\ base_time = <<>>
    /\ forecast_time = <<>>
    /\ lat = <<0>>
    /\ lon = <<0>>
    /\ field = [b \in 1..Len(base_time) |-> <<<<Cell(0)>>>>]
    /\ DiskAtRest
    /\ resp = NoResp

NextParse ==
    \/ \E s \in ParseInputs : Idle /\ ParseNaiveCall(s)
    \/ \E s \in ParseInputs : Idle /\ ParseIsoNaiveCall(s)
    \/ \E b \in ParseInputs, f \in ParseFcstInputs : Idle /\ NormalizeTimesCall(b, f)
    \/ ParseNaiveAgain

SpecParse == InitParse /\ [][NextParse]_vars

-----------------------------------------------------------------------------
(* Vocabulary of the claims                                                *)

\* The run labels of the store, as compared by the matchers
StoredRuns == {[b EXCEPT !.us = 0] : b \in Range(base_time)}

\* The canonical run request of the call recorded in resp
ReqRun ==
    IF resp.op = "by_date" THEN IsoNaiveUtc(resp.req[1]) ELSE ParseNaive(resp.req[1])

\* Calls that resolve a run with _match_base_time
UsesMatchBaseTime == resp.op \in {"heatmap", "by_forecast"}

\* _match_base_time did not return: no run is reported back
MatchBaseFailed == UsesMatchBaseTime /\ resp.base = <<>>

ByDateFound == resp.op = "by_date" /\ resp.status = "200"

ByDateNotFound == resp.op = "by_date" /\ resp.status = "404"

Midnight(ts) == ts = At(DateOf(ts), 0)

Noon(ts) == ts = At(DateOf(ts), 12)

\* The other half-day label of the same date, for a request at 00:00 or 12:00
HalfDayAlternates(r) ==
    IF Midnight(r) THEN {At(DateOf(r), 12)}
    ELSE IF Noon(r) THEN {At(DateOf(r), 0)}
    ELSE {}

\* C1 (by_date run matching): the result is r when r is stored; otherwise the
\* alternate half-day label of r's date when that is stored; otherwise the
\* request fails as not found.
C1_ByDateRunMatching ==
    resp.op = "by_date" =>
        LET r == ReqRun
            alts == HalfDayAlternates(r) \cap StoredRuns
        IN IF r \in StoredRuns
           THEN resp.status = "200" /\ resp.base = <<IsoUtc(r)>>
           ELSE IF alts # {}
           THEN resp.status = "200" /\ \E a \in alts : resp.base = <<IsoUtc(a)>>
           ELSE resp.status = "404" /\ resp.base = <<>>

\* C2 (exact run match for every stored label): a request for exactly a stored
\* label resolves to that label, whatever its hour of day, in by_date and in
\* _match_base_time.
C2_ExactMatchAnyHour ==
    (resp.op = "by_date" \/ UsesMatchBaseTime) /\ ReqRun \in StoredRuns
        => resp.base # <<>> /\ resp.base[1].wall = ReqRun

\* C3 (fallback stays on the date and only swaps 00:00 and 12:00): a label
\* returned by run matching is on the requested date; a label returned in
\* place of the request is the 12:00 label for a 00:00 request and the 00:00
\* label for a 12:00 request; the alternate named by a failed by_date call is
\* that label too.
C3_FallbackOnlySwapsHalfDays ==
    /\ (resp.op = "by_date" \/ UsesMatchBaseTime) /\ resp.base # <<>>
          => DateOf(resp.base[1].wall) = DateOf(ReqRun)
    /\ ByDateFound /\ resp.base[1].wall # ReqRun
          => resp.base[1].wall \in HalfDayAlternates(ReqRun)
    /\ ByDateNotFound /\ (Midnight(ReqRun) \/ Noon(ReqRun))
          => /\ Len(resp.alt) = 1
             /\ resp.alt[1].wall \in HalfDayAlternates(ReqRun)

\* The labels a failed run match may list: stored runs on the requested date
RunsOnRequestedDate == {b \in StoredRuns : DateOf(b) = DateOf(ReqRun)}

HintWithin(n) ==
    /\ Len(resp.hint) <= n
    /\ \A i \in 1..Len(resp.hint) : resp.hint[i].wall \in RunsOnRequestedDate
    /\ RunsOnRequestedDate = {} => resp.hint = <<>>

StoreUnchanged == UNCHANGED store

C5_CanonicalForm ==
    /\ resp.op = "_parse_naive" /\ resp.idx = 0 /\ resp.req[1].off = 0
          => LET s == resp.req[1]
                 twin == [s EXCEPT !.aware = ~s.aware]
             IN /\ resp.base = <<IsoFormat(ParseNaive(twin))>>
                /\ ~resp.base[1].aware
                /\ WholeSecond(resp.base[1].wall)
    /\ resp.op = "_normalize_times"
          => /\ ~resp.base[1].aware /\ WholeSecond(resp.base[1].wall)
             /\ ~resp.times[1].aware /\ WholeSecond(resp.times[1].wall)
    /\ resp.op = "_parse_naive" /\ resp.idx = 1
          => resp.base = resp.req

\* C6 as stated: _parse_iso_naive returns the canonical value of _parse_naive
\* for every input string, non-zero offsets included.
C6_ParsersAgree ==
    resp.op = "_parse_iso_naive"
        => resp.base = <<IsoFormat(ParseNaive(resp.req[1]))>>

\* C6 (amended): _parse_iso_naive returns the value of _parse_naive for every
\* input without designator or with a zero offset; for an input with a
\* non-zero offset it returns the written clock reading, which is the value
\* of _parse_naive plus the offset.
C6_ParsersAgreeAtZeroOffset ==
    resp.op = "_parse_iso_naive"
        => LET s == resp.req[1]
               canon == ParseNaive(s)
           IN /\ ~resp.base[1].aware
              /\ s.off = 0 => resp.base[1].wall = canon
              /\ resp.base[1].wall = [canon EXCEPT !.sec = canon.sec + s.off]

\* _parse_iso_naive parsed a string with a non-zero offset
C6_Witness ==
    /\ resp.op = "_parse_iso_naive"
    /\ resp.req[1].off # 0
    /\ resp.base[1].wall # ParseNaive(resp.req[1])

-----------------------------------------------------------------------------
(* Claims about the valid times of a resolved run                          *)

\* The canonical valid-time request of a heatmap or tooltip call
ReqValid == ParseNaive(resp.req[2])

\* The stored row of valid times paired with run label r
RowOfRun(r) == forecast_time[CHOOSE i \in 1..Len(base_time) : base_time[i] = r]

\* The run a heatmap call (through the 00Z gate) or a tooltip call resolves
RunResolved ==
    \/ resp.op = "heatmap" /\ ReqRun \in Range(base_time) /\ HourOf(ReqRun) = 0
    \/ resp.op = "tooltip" /\ ReqRun \in Range(base_time)

SelectedRow == forecast_time[resp.idx]

ValidOn(d) == {v \in Range(SelectedRow) : DateOf(v) = d}

Earliest(S) == CHOOSE v \in S : \A w \in S : Leq(v, w)

\* C8 (date-only selection in by_forecast): the label returned for a date is
\* the 00:00:00 label when the run has one on that date, and otherwise the
\* earliest valid time of that date.
C8_DateOnlySelection ==
    resp.op = "by_forecast" /\ resp.status = "200"
        => \A k \in 1..Len(resp.times) :
              LET d == DateOf(resp.times[k].wall)
              IN resp.times[k].wall =
                    IF At(d, 0) \in ValidOn(d) THEN At(d, 0) ELSE Earliest(ValidOn(d))

\* C9 (forecast-evolution window): for verification date V the result holds
\* exactly one label, a valid time of the selected run, for each date d with
\* V - 9 <= d <= V on which the run has a valid time, nothing for any other
\* date, at most 10 labels, in ascending date order.
C9_EvolutionWindow ==
    resp.op = "by_forecast" /\ resp.status = "200"
        => LET V == DateOf(ReqRun)
               covered == {d \in V - 9 .. V : ValidOn(d) # {}}
               out == resp.times
           IN /\ {DateOf(out[k].wall) : k \in 1..Len(out)} = covered
              /\ Len(out) = Cardinality(covered)
              /\ Len(out) <= 10
              /\ \A k \in 1..Len(out) : out[k].wall \in ValidOn(DateOf(out[k].wall))
              /\ \A k \in 1..Len(out) - 1 : DateOf(out[k].wall) < DateOf(out[k + 1].wall)

\* by_forecast returned a full window from a run that also has valid times
\* before and after it
C9_Witness ==
    /\ resp.op = "by_forecast" /\ resp.status = "200"
    /\ Len(resp.times) = 10
    /\ \E v \in Range(SelectedRow) : DateOf(v) < DateOf(ReqRun) - 9
    /\ \E v \in Range(SelectedRow) : DateOf(v) > DateOf(ReqRun)

ByDateDaily == ByDateFound /\ index = "pof"

\* The position at which date d first occurs in the selected row
FirstLead(d) ==
    CHOOSE i \in 1..Len(SelectedRow) :
        /\ DateOf(SelectedRow[i]) = d
        /\ \A j \in 1..i - 1 : DateOf(SelectedRow[j]) # d

RowDates == {DateOf(v) : v \in Range(SelectedRow)}

\* C10 as stated: on the daily dataset by_date returns at most 10 entries,
\* pairwise distinct calendar dates, ascending, each at or after the run's date.
C10_DailyAscending ==
    ByDateDaily =>
        LET out == resp.times
        IN /\ Len(out) <= 10
           /\ \A k \in 1..Len(out) : Midnight(out[k].wall)
           /\ \A k \in 1..Len(out) - 1 : DateOf(out[k].wall) < DateOf(out[k + 1].wall)
           /\ \A k \in 1..Len(out) : DateOf(out[k].wall) >= DateOf(resp.base[1].wall)

\* C10 (amended): on the daily dataset by_date returns at most 10 entries,
\* pairwise distinct calendar dates, each the date of a valid time of the run,
\* in the order in which the dates first occur along the lead index: the
\* first 10 such dates. They ascend when the run's valid times do, and are at
\* or after the run's date when no valid time precedes it.
C10_DailyFirstOccurrence ==
    ByDateDaily =>
        LET out == resp.times
            D(k) == DateOf(out[k].wall)
        IN /\ Len(out) <= 10
           /\ \A k \in 1..Len(out) : Midnight(out[k].wall) /\ D(k) \in RowDates
           /\ \A k, l \in 1..Len(out) : k < l => FirstLead(D(k)) < FirstLead(D(l))
           /\ \A d \in RowDates :
                 (\E k \in 1..Len(out) : D(k) = d)
                    \/ (Len(out) = 10 /\ \A k \in 1..Len(out) : FirstLead(D(k)) < FirstLead(d))
           /\ (\A i \in 1..Len(SelectedRow) - 1 :
                  DateOf(SelectedRow[i]) <= DateOf(SelectedRow[i + 1]))
                 => \A k \in 1..Len(out) - 1 : D(k) < D(k + 1)
           /\ (\A d \in RowDates : d >= DateOf(resp.base[1].wall))
                 => \A k \in 1..Len(out) : D(k) >= DateOf(resp.base[1].wall)

\* by_date cut a daily run of more than 10 dates down to its first 10
C10_Witness ==
    /\ ByDateDaily
    /\ Len(resp.times) = 10
    /\ Cardinality(RowDates) > 10

-----------------------------------------------------------------------------
(* Claims about the sub-daily list of by_date                              *)

ByDateSubDaily(op) == resp.op = op /\ resp.status = "200" /\ index # "pof"

\* The valid times of the selected run as by_date compares them
SelectedVals == NormVals(SelectedRow)

\* The position at which value v first occurs in the selected row
FirstPos(v) == CHOOSE i \in 1..Len(SelectedVals) :
                  SelectedVals[i] = v /\ \A j \in 1..i - 1 : SelectedVals[j] # v

\* The returned list holds every valid time of the run exactly once
ListsEachOnce ==
    /\ {resp.times[k].wall : k \in 1..Len(resp.times)} = Range(SelectedVals)
    /\ \A k, l \in 1..Len(resp.times) : resp.times[k] = resp.times[l] => k = l

InLeadOrder ==
    \A k, l \in 1..Len(resp.times) :
        k < l => FirstPos(resp.times[k].wall) < FirstPos(resp.times[l].wall)

-----------------------------------------------------------------------------
(* Spatial subsetting: utils/bounds_utils.py                               *)

\* A DataArray over (base_time, lat, lon)
DataArray(bt, la, lo, vals) == [base_time |-> bt, lat |-> la, lon |-> lo, values |-> vals]

\* da = ds[var_name]
Da == DataArray(base_time, lat, lon, field)

\* float(da.lat.min()), float(da.lat.max()) and the same for lon
SeqMin(s) == CHOOSE x \in Range(s) : \A y \in Range(s) : x <= y

SeqMax(s) == CHOOSE x \in Range(s) : \A y \in Range(s) : y <= x

\* A bounding box after Transformer.transform of its two corners, in whole
\* degrees; the bbox parameter is <<>> when absent
BBox(lon_min, lat_min, lon_max, lat_max) ==
    [lon_min |-> lon_min, lat_min |-> lat_min, lon_max |-> lon_max, lat_max |-> lat_max]

\* if bbox: reprojected corners, else: the extent of the grid
Corners(da, bbox) ==
    IF bbox # <<>> THEN bbox[1]
    ELSE BBox(SeqMin(da.lon), SeqMin(da.lat), SeqMax(da.lon), SeqMax(da.lat))

\* Variant of the longitude mask that never wraps around the antimeridian
LonMaskNoWrap(x, lon_min, lon_max) == x >= lon_min /\ x <= lon_max

\* crosses = lon_min > lon_max; lon_mask
LonMask(x, lon_min, lon_max) ==
    IF lon_min > lon_max
    THEN x >= lon_min \/ x <= lon_max
    ELSE x >= lon_min /\ x <= lon_max

\* if lat_min > lat_max: swap; lat_mask
LatMask(y, lat_min, lat_max) ==
    LET lo == IF lat_min > lat_max THEN lat_max ELSE lat_min
        hi == IF lat_min > lat_max THEN lat_min ELSE lat_max
    IN y >= lo /\ y <= hi

\* Variant of where(..., drop=True) that also drops every run but the first
WhereDropFirstRun(da, lat_ok, lon_ok) ==
    LET any == lat_ok # {} /\ lon_ok # {}
        keep_i == IF any THEN SortedSeq(lat_ok) ELSE <<>>
        keep_j == IF any THEN SortedSeq(lon_ok) ELSE <<>>
    IN DataArray(Take(da.base_time, 1),
                 [a \in 1..Len(keep_i) |-> da.lat[keep_i[a]]],
                 [c \in 1..Len(keep_j) |-> da.lon[keep_j[c]]],
                 [b \in 1..Len(Take(da.base_time, 1)) |->
                     [a \in 1..Len(keep_i) |->
                         [c \in 1..Len(keep_j) |-> da.values[b][keep_i[a]][keep_j[c]]]]])

\* da.where(lat_mask & lon_mask, drop=True): lat_ok and lon_ok are the
\* positions where each mask is True. A label of lat or lon survives when the
\* product mask is True somewhere along it; base_time is not a dimension of
\* the mask and is left whole.
WhereDrop(da, lat_ok, lon_ok) ==
    LET any == lat_ok # {} /\ lon_ok # {}
        keep_i == IF any THEN SortedSeq(lat_ok) ELSE <<>>
        keep_j == IF any THEN SortedSeq(lon_ok) ELSE <<>>
    IN DataArray(da.base_time,
                 [a \in 1..Len(keep_i) |-> da.lat[keep_i[a]]],
                 [c \in 1..Len(keep_j) |-> da.lon[keep_j[c]]],
                 [b \in 1..Len(da.base_time) |->
                     [a \in 1..Len(keep_i) |->
                         [c \in 1..Len(keep_j) |->
                             IF keep_i[a] \in lat_ok /\ keep_j[c] \in lon_ok
                             THEN da.values[b][keep_i[a]][keep_j[c]]
                             ELSE NaN]]])

\* _extract_spatial_subset(da, bbox)
ExtractSpatialSubset(da, bbox) ==
    LET c == Corners(da, bbox)
        lat_ok == {i \in 1..Len(da.lat) : LatMask(da.lat[i], c.lat_min, c.lat_max)}
        lon_ok == {j \in 1..Len(da.lon) : LonMask(da.lon[j], c.lon_min, c.lon_max)}
    IN WhereDrop(da, lat_ok, lon_ok)

\* _extract_spatial_subset applied to the whole field of the store
ExtractSpatialSubsetCall(bbox) ==
    /\ resp' = [op |-> "subset", status |-> "200", bbox |-> bbox,
                da |-> ExtractSpatialSubset(Da, bbox)]
    /\ UNCHANGED store

\* Runs of the gridded stores
MaxGridRuns == 2

GridRunLabels == <<At(BaseDay + 1, 0), At(BaseDay, 0), At(BaseDay, 12)>>

GridAxes == {Take(GridRunLabels, n) : n \in 1..Min2(MaxGridRuns, Len(GridRunLabels))}

\* Grids: latitudes ascending or descending; longitudes on both sides of the
\* antimeridian with a point at 0, or a coarse grid away from it
GridLats == {<<0 - 5, 5>>, <<5, 0 - 5>>}

GridLons == {<<0 - 175, 0 - 170, 0, 170, 175>>, <<0, 90>>}

\* Every cell holds its own value; one cell in four is missing
GridField(nb, nlat, nlon) ==
    [b \in 1..nb |-> [i \in 1..nlat |-> [j \in 1..nlon |->
        IF (b + i + j) % 4 = 0 THEN NaN ELSE Cell(100 * b + 10 * i + j)]]]

\* Boxes: edges on grid lines, between them and outside the grid; corners in
\* either order
BoxLons == {0 - 180, 0 - 172, 0 - 170, 0, 45, 170, 172, 180}

BoxLats == {0 - 10, 0 - 5, 0, 5, 10}

BBoxes ==
    {<<>>} \cup {<<BBox(w, s, e, n)>> : w \in BoxLons, e \in BoxLons, s \in BoxLats, n \in BoxLats}

InitGrid ==
    /\ index \in {"pof", "fopi"}
    /\ base_time \in GridAxes
    /\ forecast_time = [i \in 1..Len(base_time) |-> <<base_time[i]>>]
    /\ lat \in GridLats
    /\ lon \in GridLons
    /\ field = GridField(Len(base_time), Len(lat), Len(lon))
    /\ DiskAtRest
    /\ resp = NoResp

NextGrid == \E bbox \in BBoxes : Idle /\ ExtractSpatialSubsetCall(bbox)

SpecGrid == InitGrid /\ [][NextGrid]_vars

Subset == resp.op = "subset"

WithBBox == Subset /\ resp.bbox # <<>>

Box == resp.bbox[1]

\* grid latitudes inside the latitude range of the box
LatsInBox ==
    {y \in Range(lat) : (Box.lat_min <= y /\ y <= Box.lat_max)
                            \/ (Box.lat_max <= y /\ y <= Box.lat_min)}

\* grid longitudes the claim names
LonsNamed ==
    IF Box.lon_min > Box.lon_max
    THEN {x \in Range(lon) : x >= Box.lon_min \/ x <= Box.lon_max}
    ELSE {x \in Range(lon) : Box.lon_min <= x /\ x <= Box.lon_max}

PointsInBox == LatsInBox \X LonsNamed

\* twice the squared distance terms from the box center to a grid point
Dist2(y, x) ==
    (2 * y - (Box.lat_min + Box.lat_max)) * (2 * y - (Box.lat_min + Box.lat_max))
        + (2 * x - (Box.lon_min + Box.lon_max)) * (2 * x - (Box.lon_min + Box.lon_max))

OnePoint(y, x) == resp.da.lat = <<y>> /\ resp.da.lon = <<x>>

\* C13: subsetting with a box never returns an empty selection: a box lying
\* on one grid point returns that point, and a box containing no grid point
\* returns the single grid point nearest to its center.
C13_NeverEmpty ==
    WithBBox =>
        /\ resp.da.lat # <<>> /\ resp.da.lon # <<>>
        /\ (Box.lat_min = Box.lat_max /\ Box.lon_min = Box.lon_max
                /\ Box.lat_min \in Range(lat) /\ Box.lon_min \in Range(lon))
              => OnePoint(Box.lat_min, Box.lon_min)
        /\ (PointsInBox = {} /\ Box.lon_min <= Box.lon_max)
              => \E y \in Range(lat), x \in Range(lon) :
                    /\ OnePoint(y, x)
                    /\ \A y2 \in Range(lat), x2 \in Range(lon) : Dist2(y, x) <= Dist2(y2, x2)

\* position of a coordinate on an axis of the input
PosOf(axis, v) == CHOOSE i \in 1..Len(axis) : axis[i] = v

\* out keeps some entries of axis, in the order of axis
KeepsOrder(out, axis) ==
    /\ Range(out) \subseteq Range(axis)
    /\ \A a, c \in 1..Len(out) : a < c => PosOf(axis, out[a]) < PosOf(axis, out[c])

\* C14: the run axis of the result has the labels of the input in the same
\* order, every retained cell keeps its input value, only latitude and
\* longitude points are removed, and without a box the whole grid is retained.
C14_Frame ==
    Subset =>
        /\ resp.da.base_time = base_time
        /\ KeepsOrder(resp.da.lat, lat)
        /\ KeepsOrder(resp.da.lon, lon)
        /\ DOMAIN resp.da.values = 1..Len(base_time)
        /\ \A b \in 1..Len(base_time), a \in 1..Len(resp.da.lat), c \in 1..Len(resp.da.lon) :
              resp.da.values[b][a][c]
                  = field[b][PosOf(lat, resp.da.lat[a])][PosOf(lon, resp.da.lon[c])]
        /\ resp.bbox = <<>> => resp.da = Da

C14_Witness ==
    /\ WithBBox
    /\ Len(base_time) > 1
    /\ resp.da.base_time = base_time
    /\ Len(resp.da.lat) = 1 /\ Len(lat) > 1
    /\ Len(resp.da.lon) > 1 /\ Len(resp.da.lon) < Len(lon)
    /\ \E a \in 1..Len(resp.da.lon) : IsFinite(resp.da.values[2][1][a])

-----------------------------------------------------------------------------
(* Aggregation over runs: utils/stats.py and the statistics routes         *)

\* _iso_drop_tz (imported by the statistics routes): a timezone-naive value
\* at second precision, read as UTC wall-clock
IsoDropTz(s) == TS(s.wall.sec - s.off)

RemoveAt(s, i) == SubSeq(s, 1, i - 1) \o SubSeq(s, i + 1, Len(s))

\* sorted(base_vals)
RECURSIVE SortedTimes(_)
SortedTimes(s) ==
    IF s = <<>> THEN <<>>
    ELSE LET i == CHOOSE i \in 1..Len(s) :
                    /\ \A j \in 1..Len(s) : Leq(s[i], s[j])
                    /\ \A j \in 1..i - 1 : s[j] # s[i]
         IN <<s[i]>> \o SortedTimes(RemoveAt(s, i))

\* base_vals_sorted after the start_base / end_base filters; each bound is
\* <<>> when the parameter is absent
WindowRuns(start_base, end_base) ==
    LET FromStart(bt) == start_base = <<>> \/ Leq(IsoDropTz(start_base[1]), bt)
        UpToEnd(bt) == end_base = <<>> \/ Leq(bt, IsoDropTz(end_base[1]))
    IN FilterSeq(UpToEnd, FilterSeq(FromStart, SortedTimes(NormVals(base_time))))

\* da.sel(base_time=labels) raises KeyError for a label that is not stored
HasRuns(da, labels) == Range(labels) \subseteq Range(da.base_time)

\* da.sel(base_time=labels)
SelRuns(da, labels) ==
    DataArray(labels, da.lat, da.lon,
              [k \in 1..Len(labels) |-> da.values[PosOf(da.base_time, labels[k])]])

\* the rows of one run laid end to end
RECURSIVE ConcatRows(_, _)
ConcatRows(rows, n) == IF n = 0 THEN <<>> ELSE ConcatRows(rows, n - 1) \o rows[n]

\* da.sel(base_time=bt).stack(z=("lat", "lon")).to_numpy(): the cells of run b
Stack(da, b) == IF da.lon = <<>> THEN <<>> ELSE ConcatRows(da.values[b], Len(da.lat))

\* da.stack(space=non_time_dims).transpose("base_time", "space").values
RECURSIVE StackAll(_, _)
StackAll(da, n) == IF n = 0 THEN <<>> ELSE Append(StackAll(da, n - 1), Stack(da, n))

IsPresent(v) == IsFinite(v)

RECURSIVE SumNum(_)
SumNum(s) == IF s = <<>> THEN 0 ELSE s[1].num + SumNum(Tail(s))

\* ascending order of finite field values
RECURSIVE SortedNums(_)
SortedNums(s) ==
    IF s = <<>> THEN <<>>
    ELSE LET i == CHOOSE i \in 1..Len(s) : \A j \in 1..Len(s) : LeqNum(s[i], s[j])
         IN <<s[i]>> \o SortedNums(RemoveAt(s, i))

\* np.nanmean(arr) if arr.size else np.nan
NanMean(arr) ==
    LET present == FilterSeq(IsPresent, arr)
    IN IF present = <<>> THEN NaN ELSE Num(SumNum(present), Len(present))

\* np.nanmedian(arr) if arr.size else np.nan
NanMedian(arr) ==
    LET present == SortedNums(FilterSeq(IsPresent, arr))
        n == Len(present)
    IN IF n = 0 THEN NaN
       ELSE IF n % 2 = 1 THEN present[(n + 1) \div 2]
       ELSE Num(present[n \div 2].num + present[(n \div 2) + 1].num, 2)

\* Variant of _to_opt_float that hands NaN through
ToOptFloatKeepsNaN(v) == v

\* _to_opt_float
ToOptFloat(v) == IF v.kind = "num" THEN v ELSE None

\* _agg_mean_median(da): has_dims says whether da has a lat or lon dimension,
\* arr holds its values
AggMeanMedian(has_dims, arr) ==
    IF ~has_dims
    THEN [mean |-> ToOptFloat(arr[1]), median |-> ToOptFloat(arr[1])]
    ELSE [mean |-> ToOptFloat(NanMean(arr)), median |-> ToOptFloat(NanMedian(arr))]

\* _agg_mean_median on the scalar da.sel(base_time=..., lat=..., lon=...)
AggMeanMedianCall(b, i, j) ==
    LET arr == <<field[b][i][j]>>
        r == AggMeanMedian(FALSE, arr)
    IN /\ resp' = [op |-> "agg", status |-> "200", arr |-> arr,
                   mean |-> <<r.mean>>, median |-> <<r.median>>]
       /\ UNCHANGED store

\* GET /{index}/time_series (routes/time_series.py, mode by_base_time)
TimeSeriesByBaseTime(bbox, start_base, end_base) ==
    LET base_vals_sorted == WindowRuns(start_base, end_base)
        da_sel == ExtractSpatialSubset(SelRuns(Da, base_vals_sorted), bbox)
        stats == [k \in 1..Len(da_sel.base_time) |-> AggMeanMedian(TRUE, Stack(da_sel, k))]
    IN /\ resp' = IF ~HasRuns(Da, base_vals_sorted)
                  THEN [op |-> "by_base_time", status |-> "400"]
                  ELSE [op |-> "by_base_time", status |-> "200", bbox |-> bbox,
                        timestamps |-> MapSeq(IsoUtcStr, da_sel.base_time),
                        mean |-> [k \in 1..Len(stats) |-> stats[k].mean],
                        median |-> [k \in 1..Len(stats) |-> stats[k].median]]
       /\ UNCHANGED store

\* Field values and thresholds are counted in hundredths: 1.0 is Hundred
Hundred == 100

\* thr = [float(x) for x in np.linspace(0.0, 1.0, 101)]
DefaultThresholds == [k \in 1..Hundred + 1 |-> k - 1]

\* thr: the sorted set of the floats of the thresholds parameter (<<>> when
\* absent), or the default levels
Thresholds(thresholds) ==
    IF thresholds # <<>> THEN SortedSeq(Range(thresholds)) ELSE DefaultThresholds

\* if any((t < 0 or t > 1) for t in thr): 400
ThresholdsValid(thr) == \A i \in 1..Len(thr) : ~(thr[i] < 0 \/ thr[i] > Hundred)

RECURSIVE SumSeq(_)
SumSeq(s) == IF s = <<>> THEN 0 ELSE s[1] + SumSeq(Tail(s))

\* valid_mask = ~np.isnan(arr), as the set of valid positions of one row
ValidMask(row) == {i \in 1..Len(row) : row[i].kind # "nan"}

\* np.count_nonzero((arr >= t) & valid_mask) over one row
CountGE(row, t) == Cardinality({i \in ValidMask(row) : row[i].num >= t * row[i].den})

\* float(cnt / tot) if tot > 0 else float("nan")
Fraction(cnt, tot) == IF tot > 0 THEN Num(cnt, tot) ELSE NaN

\* Variant of the grouping that keeps only the first run of a date
RunsOnDateFirst(bt_coord, d) ==
    LET OnDate(k) == DateOf(bt_coord[k]) = d
    IN Take(FilterSeq(OnDate, [k \in 1..Len(bt_coord) |-> k]), 1)

\* the positions of the runs labelled bt_coord that fall on date d
RunsOnDate(bt_coord, d) ==
    LET OnDate(k) == DateOf(bt_coord[k]) = d
    IN FilterSeq(OnDate, [k \in 1..Len(bt_coord) |-> k])

\* valid_mask.sum(axis=1), summed over the rows at the positions runs
RECURSIVE TotalOver(_, _)
TotalOver(arr, runs) ==
    IF runs = <<>> THEN 0
    ELSE Cardinality(ValidMask(arr[runs[1]])) + TotalOver(arr, Tail(runs))

\* np.count_nonzero((arr >= t) & valid_mask, axis=1), summed over the same rows
RECURSIVE CountOver(_, _, _)
CountOver(arr, runs, t) ==
    IF runs = <<>> THEN 0
    ELSE CountGE(arr[runs[1]], t) + CountOver(arr, Tail(runs), t)

\* fractions, counts and total of the rows at the positions runs
Exceedance(arr, runs, thr) ==
    LET tot == TotalOver(arr, runs)
    IN [fraction |-> [j \in 1..Len(thr) |-> Fraction(CountOver(arr, runs, thr[j]), tot)],
        count |-> [j \in 1..Len(thr) |-> CountOver(arr, runs, thr[j])],
        total |-> tot]

\* GET /{index}/exceedance_frequency
ExceedanceFrequency(bbox, start_base, end_base, thresholds) ==
    LET base_vals_sorted == WindowRuns(start_base, end_base)
        da_sel == ExtractSpatialSubset(SelRuns(Da, base_vals_sorted), bbox)
        thr == Thresholds(thresholds)
        n_time == Len(da_sel.base_time)
        arr == StackAll(da_sel, n_time)
        dates_sorted == SortedSeq({DateOf(da_sel.base_time[k]) : k \in 1..n_time})
        ByDate(i) == Exceedance(arr, RunsOnDate(da_sel.base_time, dates_sorted[i]), thr)
        req == [bbox |-> bbox, start_base |-> start_base, end_base |-> end_base]
        Body(status, t, o, bd) ==
            [op |-> "exceedance_frequency", status |-> status, req |-> req,
             thresholds |-> t, overall |-> o, by_date |-> bd]
        empty == [fraction |-> <<>>, count |-> <<>>, total |-> 0]
        empty_by_date == [dates |-> <<>>, fraction |-> <<>>, count |-> <<>>, total |-> <<>>]
    IN /\ resp' =
            IF base_vals_sorted = <<>> THEN Body("200", <<>>, empty, empty_by_date)
            ELSE IF ~HasRuns(Da, base_vals_sorted) THEN Body("400", <<>>, empty, empty_by_date)
            ELSE IF ~ThresholdsValid(thr) THEN Body("400", <<>>, empty, empty_by_date)
            ELSE Body("200", thr,
                      Exceedance(arr, [k \in 1..n_time |-> k], thr),
                      [dates |-> dates_sorted,
                       fraction |-> [i \in 1..Len(dates_sorted) |-> ByDate(i).fraction],
                       count |-> [i \in 1..Len(dates_sorted) |-> ByDate(i).count],
                       total |-> [i \in 1..Len(dates_sorted) |-> ByDate(i).total]])
       /\ UNCHANGED store

\* da_sel.sum(dim=non_time_dims, skipna=True) for one run: missing cells add nothing
RunSum(row) == SumNum(FilterSeq(IsPresent, row))

\* grouped = df.groupby("date", sort=True)["val"].sum(), for one date
RECURSIVE DateSum(_, _)
DateSum(arr, runs) ==
    IF runs = <<>> THEN 0 ELSE RunSum(arr[runs[1]]) + DateSum(arr, Tail(runs))

\* Variant of the running sum that carries nothing over
CumSumNoCarry(values) == values

\* pd.Series(values).cumsum()
CumSum(values) == [i \in 1..Len(values) |-> SumSeq(SubSeq(values, 1, i))]

\* GET /{index}/expected_fires
ExpectedFires(bbox, start_base, end_base) ==
    LET base_vals_sorted == WindowRuns(start_base, end_base)
        da_sel == ExtractSpatialSubset(SelRuns(Da, base_vals_sorted), bbox)
        n_time == Len(da_sel.base_time)
        arr == StackAll(da_sel, n_time)
        dates == SortedSeq({DateOf(da_sel.base_time[k]) : k \in 1..n_time})
        values == [i \in 1..Len(dates) |-> DateSum(arr, RunsOnDate(da_sel.base_time, dates[i]))]
        req == [bbox |-> bbox, start_base |-> start_base, end_base |-> end_base]
        Body(status, d, v, c) ==
            [op |-> "expected_fires", status |-> status, req |-> req,
             dates |-> d, expected_sum |-> MapSeq(Cell, v), cumulative_expected |-> MapSeq(Cell, c)]
    IN /\ resp' =
            IF base_vals_sorted = <<>> THEN Body("200", <<>>, <<>>, <<>>)
            ELSE IF ~HasRuns(Da, base_vals_sorted) THEN Body("400", <<>>, <<>>, <<>>)
            \* np.asarray(values_per_run).squeeze() of a single run has ndim 0: ValueError
            ELSE IF n_time = 1 THEN Body("400", <<>>, <<>>, <<>>)
            ELSE Body("200", dates, values, CumSum(values))
       /\ UNCHANGED store

\* Variant of the date table that keeps the last run of a date
DateToBtLast(base_vals, d) ==
    base_vals[CHOOSE i \in 1..Len(base_vals) :
                  /\ FloorD(base_vals[i]) = d
                  /\ \A j \in i + 1..Len(base_vals) : FloorD(base_vals[j]) # d]

\* date_to_bt[d]: if d not in date_to_bt: date_to_bt[d] = bt
DateToBt(base_vals, d) ==
    base_vals[CHOOSE i \in 1..Len(base_vals) :
                  /\ FloorD(base_vals[i]) = d
                  /\ \A j \in 1..i - 1 : FloorD(base_vals[j]) # d]

\* da_pair.sel(base_time=bt): the positions carrying the label bt
PositionsOf(labels, bt) ==
    LET Same(k) == labels[k] = bt
    IN FilterSeq(Same, [k \in 1..Len(labels) |-> k])

\* delta_obj[~np.isfinite(delta_arr)] = None
NullIfNotFinite(v) == IF IsFinite(v) THEN v ELSE None

\* The body returned by difference_map; delta holds one layer per position
\* selected by the run labels (one layer when the two runs differ)
DifferenceMapBody(bbox, base_time_start, base_time_end) ==
    LET start_date == FloorD(IsoDropTz(base_time_start))
        end_date == FloorD(IsoDropTz(base_time_end))
        base_vals == NormVals(base_time)
        base_dates == {FloorD(base_vals[i]) : i \in 1..Len(base_vals)}
        start_bt == DateToBt(base_vals, start_date)
        end_bt == DateToBt(base_vals, end_date)
        da_pair == ExtractSpatialSubset(SelRuns(Da, <<start_bt, end_bt>>), bbox)
        sel_start == PositionsOf(da_pair.base_time, start_bt)
        sel_end == PositionsOf(da_pair.base_time, end_bt)
        req == [bbox |-> bbox, base_time_start |-> base_time_start,
                base_time_end |-> base_time_end]
    IN IF start_date \notin base_dates \/ end_date \notin base_dates
       THEN [op |-> "difference_map", status |-> "400", req |-> req]
       ELSE IF ~HasRuns(Da, <<start_bt, end_bt>>)
       THEN [op |-> "difference_map", status |-> "400", req |-> req]
       ELSE [op |-> "difference_map", status |-> "200", req |-> req,
             base_time_start |-> IsoUtcStr(start_bt),
             base_time_end |-> IsoUtcStr(end_bt),
             lats |-> da_pair.lat,
             lons |-> da_pair.lon,
             delta |-> [k \in 1..Len(sel_start) |->
                          [a \in 1..Len(da_pair.lat) |->
                              [c \in 1..Len(da_pair.lon) |->
                                  NullIfNotFinite(Sub(da_pair.values[sel_end[k]][a][c],
                                                      da_pair.values[sel_start[k]][a][c]))]]]]

\* GET /{index}/difference_map
DifferenceMap(bbox, base_time_start, base_time_end) ==
    /\ resp' = DifferenceMapBody(bbox, base_time_start, base_time_end)
    /\ UNCHANGED store

\* Run dates asked of difference_map: the first date at two times of day,
\* the second date, a date without a run
DayReqs ==
    {IsoUtc(At(BaseDay, 6)), IsoFormat(At(BaseDay, 18)), IsoUtc(At(BaseDay + 1, 0)),
     IsoUtc(At(BaseDay + 2, 0))}

\* thresholds parameters: two levels given out of order and twice, a level
\* above 1.0; the parameter is absent in one request without box and window
StatThresholds == {<<Hundred, 0, Hundred>>, <<Hundred + 50>>}

\* Stores of the statistics routes: a row of two grid points, up to
\* MaxStatRuns runs out of store order, two of them on the same date
MaxStatRuns == 3

StatRunOrders ==
    {<<At(BaseDay + 1, 0), At(BaseDay, 0), At(BaseDay, 12)>>,
     <<At(BaseDay, 12), At(BaseDay, 0), At(BaseDay + 1, 0)>>}

StatAxes == {Take(o, n) : o \in StatRunOrders, n \in 1..Min2(MaxStatRuns, 3)}

\* Field values in hundredths: missing, below zero, the top of the range
StatVals == {NaN, Cell(0 - 50), Cell(100)}

\* No box, a box around the first grid point, a box around no grid point
StatBoxes == {<<>>, <<BBox(0 - 5, 0 - 5, 5, 5)>>, <<BBox(2, 0 - 5, 5, 5)>>}

StatWindows == {<<>>, <<IsoUtc(At(BaseDay, 12))>>}

InitStats ==
    /\ index \in {"pof"}
    /\ base_time \in StatAxes
    /\ forecast_time = [i \in 1..Len(base_time) |-> <<base_time[i]>>]
    /\ lat = <<0>>
    /\ lon = <<0, 10>>
    /\ field \in [1..Len(base_time) -> [1..1 -> [1..2 -> StatVals]]]
    /\ DiskAtRest
    /\ resp = NoResp

NextStats ==
    \/ \E b \in 1..Len(base_time), j \in 1..Len(lon) : Idle /\ AggMeanMedianCall(b, 1, j)
    \/ \E bbox \in StatBoxes, sb \in StatWindows, eb \in StatWindows :
          Idle /\ TimeSeriesByBaseTime(bbox, sb, eb)
    \/ \E bbox \in StatBoxes, sb \in StatWindows, eb \in StatWindows, t \in StatThresholds :
          Idle /\ ExceedanceFrequency(bbox, sb, eb, t)
    \/ Idle /\ ExceedanceFrequency(<<>>, <<>>, <<>>, <<>>)
    \/ \E bbox \in StatBoxes, sb \in StatWindows, eb \in StatWindows :
          Idle /\ ExpectedFires(bbox, sb, eb)
    \/ \E bbox \in StatBoxes, s \in DayReqs, e \in DayReqs : Idle /\ DifferenceMap(bbox, s, e)

SpecStats == InitStats /\ [][NextStats]_vars

Served(op) == resp.op = op /\ resp.status = "200"

\* the store's field restricted to the box of the request
InBox == ExtractSpatialSubset(Da, resp.bbox)

\* the cells aggregated into the k-th statistic of the response
ScopeCells(k) ==
    IF resp.op = "agg" THEN resp.arr
    ELSE Stack(InBox, PosOf(base_time, resp.timestamps[k].wall))

PresentIdx(cells) == {i \in 1..Len(cells) : cells[i].kind = "num"}

IsNumberOrNone(x) == x.kind \in {"num", "none"}

\* m is the arithmetic mean of the present cells
IsMeanOf(m, cells) ==
    /\ m.kind = "num"
    /\ m.num * Cardinality(PresentIdx(cells)) = m.den * SumNum(FilterSeq(IsPresent, cells))

\* md is the median of the present cells: the middle one of an odd number,
\* the midpoint of the two middle ones of an even number
IsMedianOf(md, cells) ==
    LET P == PresentIdx(cells)
        n == Cardinality(P)
        AtMost(v) == Cardinality({i \in P : LeqNum(cells[i], v)})
        AtLeast(v) == Cardinality({i \in P : LeqNum(v, cells[i])})
    IN /\ md.kind = "num"
       /\ \E i, j \in P :
             /\ n % 2 = 1 => i = j
             /\ n % 2 = 0 => i # j
             /\ LeqNum(cells[i], cells[j])
             /\ 2 * AtMost(cells[i]) >= n /\ 2 * AtLeast(cells[j]) >= n
             /\ 2 * AtLeast(cells[i]) >= n /\ 2 * AtMost(cells[j]) >= n
             /\ md = Num(cells[i].num + cells[j].num, 2)

\* C15: _agg_mean_median never returns NaN: each statistic is None or a
\* number; (None, None) when every cell in scope is missing or the slice is
\* empty; otherwise the mean and the median of the present cells only.
C15_NeverNaN ==
    Served("agg") \/ Served("by_base_time") =>
        /\ Len(resp.mean) = Len(resp.median)
        /\ \A k \in 1..Len(resp.mean) :
              /\ IsNumberOrNone(resp.mean[k]) /\ IsNumberOrNone(resp.median[k])
              /\ PresentIdx(ScopeCells(k)) = {}
                    => resp.mean[k] = None /\ resp.median[k] = None
              /\ PresentIdx(ScopeCells(k)) # {}
                    => /\ IsMeanOf(resp.mean[k], ScopeCells(k))
                       /\ IsMedianOf(resp.median[k], ScopeCells(k))

\* one response with a run whose cells are all missing, a run with one cell
\* missing and a run with both cells present
C15_Witness ==
    /\ Served("by_base_time")
    /\ Len(resp.mean) = 3
    /\ \E k \in 1..3 : ScopeCells(k) = <<NaN, NaN>> /\ resp.mean[k] = None
    /\ \E k \in 1..3 : ScopeCells(k) = <<NaN, Cell(100)>> /\ resp.median[k] = Cell(100)
    /\ \E k \in 1..3 : ScopeCells(k) = <<Cell(0 - 50), Cell(100)>> /\ resp.median[k] = Cell(25)

\* the runs selected by the window of the request, as positions on the run axis
RunsInWindow ==
    {b \in 1..Len(base_time) :
        /\ resp.req.start_base = <<>> \/ Leq(resp.req.start_base[1].wall, base_time[b])
        /\ resp.req.end_base = <<>> \/ Leq(base_time[b], resp.req.end_base[1].wall)}

\* the non-missing cells, as (run, position) pairs, of the selected runs in the box
ValidCells(runs) ==
    LET sub == ExtractSpatialSubset(Da, resp.req.bbox)
    IN {c \in runs \X (1..Len(sub.lat) * Len(sub.lon)) : Stack(sub, c[1])[c[2]].kind = "num"}

ValueAt(c) == Stack(ExtractSpatialSubset(Da, resp.req.bbox), c[1])[c[2]]

\* the fraction the claim names for threshold t over the given runs
FractionNamed(runs, t) ==
    LET valid == ValidCells(runs)
    IN IF valid = {} THEN None
       ELSE Num(Cardinality({c \in valid : ValueAt(c).num >= t * ValueAt(c).den}),
                Cardinality(valid))

\* C16: the pooled fraction at each threshold is the number of non-missing
\* cells >= t divided by the number of non-missing cells; with no non-missing
\* cell (pooled, or for a date) the fraction delivered is None, never NaN.
C16_FractionsNoneWhenNoData ==
    Served("exceedance_frequency") =>
        /\ \A j \in 1..Len(resp.thresholds) :
              resp.overall.fraction[j] = FractionNamed(RunsInWindow, resp.thresholds[j])
        /\ \A i \in 1..Len(resp.by_date.dates), j \in 1..Len(resp.thresholds) :
              resp.by_date.fraction[i][j]
                  = FractionNamed({b \in RunsInWindow : DateOf(base_time[b]) = resp.by_date.dates[i]},
                                  resp.thresholds[j])

RunsInWindowOn(d) == {b \in RunsInWindow : DateOf(base_time[b]) = d}

\* the sum of the values of a set of cells
RECURSIVE SumCells(_)
SumCells(S) ==
    IF S = {} THEN 0
    ELSE LET c == CHOOSE c \in S : TRUE IN ValueAt(c).num + SumCells(S \ {c})

FirstRunOn(reqstr) ==
    LET d == DateOf(reqstr.wall)
        b == CHOOSE b \in 1..Len(base_time) :
                /\ DateOf(base_time[b]) = d
                /\ \A j \in 1..b - 1 : DateOf(base_time[j]) # d
    IN b

\* the value of the store at run b and the grid point of output cell (a, c)
StoreAt(b, a, c) == field[b][PosOf(lat, resp.lats[a])][PosOf(lon, resp.lons[c])]

Swapped == DifferenceMapBody(resp.req.bbox, resp.req.base_time_end, resp.req.base_time_start)

Negated(v) == Num(0 - v.num, v.den)

\* C18: the two runs are the first stored runs on the requested dates,
\* whatever the requested time of day; each cell is the end value minus the
\* start value of the same cell, None where that is not finite; the request
\* with start and end swapped returns every finite cell negated.
C18_DifferenceByDate ==
    Served("difference_map") =>
        LET bs == FirstRunOn(resp.req.base_time_start)
            be == FirstRunOn(resp.req.base_time_end)
        IN /\ resp.base_time_start.wall = base_time[bs]
           /\ resp.base_time_end.wall = base_time[be]
           /\ Len(resp.delta) >= 1
           /\ Swapped.status = "200" /\ Len(Swapped.delta) = Len(resp.delta)
           /\ \A k \in 1..Len(resp.delta), a \in 1..Len(resp.lats), c \in 1..Len(resp.lons) :
                 LET vs == StoreAt(bs, a, c)
                     ve == StoreAt(be, a, c)
                     out == resp.delta[k][a][c]
                 IN /\ IsFinite(vs) /\ IsFinite(ve)
                          => out = Num(ve.num * vs.den - vs.num * ve.den, vs.den * ve.den)
                    /\ ~(IsFinite(vs) /\ IsFinite(ve)) => out = None
                    /\ IsFinite(out) => Swapped.delta[k][a][c] = Negated(out)

\* two runs on the start date, stored with the later one first; the request
\* names another time of day; one cell differs and one has no finite difference
C18_Witness ==
    /\ Served("difference_map")
    /\ resp.req.base_time_start.wall = At(BaseDay, 6)
    /\ resp.base_time_start.wall = At(BaseDay, 12)
    /\ resp.base_time_end.wall = At(BaseDay + 1, 0)
    /\ At(BaseDay, 0) \in Range(base_time)
    /\ Len(resp.lons) = 2
    /\ resp.delta[1][1][1] = Cell(150)
    /\ resp.delta[1][1][2] = None

-----------------------------------------------------------------------------
(* Ingestion: convert_nc_to_zarr and convert_db_records_to_unique_zarr     *)

\* The stamp of a store counts its removals and writes; calls start only
\* while every call under way can still be stamped
MaxStamp == 6

\* The serving state, which ingestion leaves alone
served == <<index, base_time, forecast_time, lat, lon, field, resp>>

\* time slices of the raw file(s) behind each store path
RawRuns(p) == IF p = UnifiedStorePath THEN 2 ELSE 1

\* Variant of the test under the lock that rebuilds every time
NeedsWriteAlways(exists, force) == TRUE

\* if not zarr_store.exists() or force
NeedsWrite(exists, force) == ~exists \/ force

\* Variant of leaving the with block that keeps the lock
ExitWithKeepsLock(locks, p) == locks

\* FileLock.__exit__: leaving the with block, by return or by exception
ExitWith(locks, p) == [locks EXCEPT ![p] = NoCaller]

Pc(c) == calls[c].pc

UnderWay(p) == {c \in Callers : calls[c].path = p /\ Pc(c) \notin {"idle", "done", "raised"}}

\* the call resolves its store path and lock path
ConvertStart(c, p, force) ==
    /\ Pc(c) = "idle"
    /\ zarr_store[p].stamp + 3 * (Cardinality(UnderWay(p)) + 1) <= MaxStamp
    /\ calls' = [calls EXCEPT ![c] = [NoCall EXCEPT !.pc = "acquire", !.path = p, !.force = force]]
    /\ UNCHANGED <<zarr_store, file_lock, served>>

\* get_nc_file_for_date finds no single record, or get_all_records is empty:
\* the call raises before it reaches the lock
ConvertStartRaises(c, p, force) ==
    /\ Pc(c) = "idle"
    /\ calls' = [calls EXCEPT ![c] = [NoCall EXCEPT !.pc = "raised", !.path = p, !.force = force]]
    /\ UNCHANGED <<zarr_store, file_lock, served>>

\* with FileLock(lock_path): blocks until the lock is free
AcquireLock(c) ==
    /\ Pc(c) = "acquire"
    /\ file_lock[calls[c].path] = NoCaller
    /\ file_lock' = [file_lock EXCEPT ![calls[c].path] = c]
    /\ calls' = [calls EXCEPT ![c].pc = "check"]
    /\ UNCHANGED <<zarr_store, served>>

\* if not zarr_store.exists() or force: ... if force and zarr_store.exists()
CheckStore(c) ==
    LET st == zarr_store[calls[c].path]
    IN /\ Pc(c) = "check"
       /\ calls' = [calls EXCEPT
                      ![c].found = st.exists,
                      ![c].pc = IF ~NeedsWrite(st.exists, calls[c].force) THEN "release"
                                ELSE IF calls[c].force /\ st.exists THEN "remove"
                                ELSE "open"]
       /\ UNCHANGED <<zarr_store, file_lock, served>>

\* shutil.rmtree(zarr_store)
RemoveStore(c) ==
    LET p == calls[c].path
    IN /\ Pc(c) = "remove"
       /\ zarr_store' = [zarr_store EXCEPT
                           ![p] = [Absent EXCEPT !.stamp = zarr_store[p].stamp + 1]]
       /\ calls' = [calls EXCEPT ![c].pc = "open", ![c].removed = TRUE]
       /\ UNCHANGED <<file_lock, served>>

\* xr.open_dataset(...), clean_time, the time axis
OpenDataset(c) ==
    /\ Pc(c) = "open"
    /\ calls' = [calls EXCEPT ![c].pc = "write"]
    /\ UNCHANGED <<zarr_store, file_lock, served>>

\* xr.open_dataset raises, or no dataset is left to combine
OpenDatasetRaises(c) ==
    /\ Pc(c) = "open"
    /\ file_lock' = ExitWith(file_lock, calls[c].path)
    /\ calls' = [calls EXCEPT ![c].pc = "raised"]
    /\ UNCHANGED <<zarr_store, served>>

\* ds.to_zarr(zarr_store, mode="w"): the directory appears before it is whole
ToZarrBegin(c) ==
    LET p == calls[c].path
    IN /\ Pc(c) = "write"
       /\ zarr_store' = [zarr_store EXCEPT
                           ![p] = [exists |-> TRUE, complete |-> FALSE, runs |-> 0,
                                   stamp |-> zarr_store[p].stamp + 1]]
       /\ calls' = [calls EXCEPT ![c].pc = "writing"]
       /\ UNCHANGED <<file_lock, served>>

ToZarrEnd(c) ==
    LET p == calls[c].path
    IN /\ Pc(c) = "writing"
       /\ zarr_store' = [zarr_store EXCEPT
                           ![p] = [exists |-> TRUE, complete |-> TRUE, runs |-> RawRuns(p),
                                   stamp |-> zarr_store[p].stamp + 1]]
       /\ calls' = [calls EXCEPT ![c].pc = "release", ![c].wrote = TRUE]
       /\ UNCHANGED <<file_lock, served>>

\* to_zarr raises, before or after the directory has appeared
ToZarrRaises(c) ==
    /\ Pc(c) \in {"write", "writing"}
    /\ file_lock' = ExitWith(file_lock, calls[c].path)
    /\ calls' = [calls EXCEPT ![c].pc = "raised"]
    /\ UNCHANGED <<zarr_store, served>>

\* time.sleep(0.5) after a write, the end of the with block, return zarr_store
ReleaseLock(c) ==
    /\ Pc(c) = "release"
    /\ file_lock' = ExitWith(file_lock, calls[c].path)
    /\ calls' = [calls EXCEPT ![c].pc = "done", ![c].ret = calls[c].path]
    /\ UNCHANGED <<zarr_store, served>>

\* the caller takes the result, or the exception, and may call again
Return(c) ==
    /\ Pc(c) \in {"done", "raised"}
    /\ calls' = [calls EXCEPT ![c] = NoCall]
    /\ UNCHANGED <<zarr_store, file_lock, served>>

InitIngest ==
    /\ index = "pof"
    /\ base_time = <<>>
    /\ forecast_time = <<>>
    /\ lat = <<0>>
    /\ lon = <<0>>
    /\ field = <<>>
    /\ DiskAtRest
    /\ resp = NoResp

NextIngest ==
    \/ \E c \in Callers, p \in StorePaths, force \in BOOLEAN : ConvertStart(c, p, force)
    \/ \E c \in Callers, p \in StorePaths, force \in BOOLEAN : ConvertStartRaises(c, p, force)
    \/ \E c \in Callers : AcquireLock(c)
    \/ \E c \in Callers : CheckStore(c)
    \/ \E c \in Callers : RemoveStore(c)
    \/ \E c \in Callers : OpenDataset(c)
    \/ \E c \in Callers : OpenDatasetRaises(c)
    \/ \E c \in Callers : ToZarrBegin(c)
    \/ \E c \in Callers : ToZarrEnd(c)
    \/ \E c \in Callers : ToZarrRaises(c)
    \/ \E c \in Callers : ReleaseLock(c)
    \/ \E c \in Callers : Return(c)

SpecIngest == InitIngest /\ [][NextIngest]_vars

\* between acquiring and releasing the lock
Inside(c) == Pc(c) \in {"check", "remove", "open", "write", "writing", "release"}

Holder(p) == file_lock[p]

Written(p) == zarr_store[p].exists /\ zarr_store[p].complete

\* C19: once a store is written, calls with force=False neither remove nor
\* write it, leave its content and run count as they are and return its path;
\* only a call with force=True removes and rewrites it.
C19_Idempotent ==
    /\ [](\A c \in Callers :
            Pc(c) = "done"
                => /\ calls[c].ret = calls[c].path
                   /\ (calls[c].found /\ ~calls[c].force)
                         => ~calls[c].removed /\ ~calls[c].wrote)
    /\ [][\A p \in StorePaths :
            (Written(p) /\ zarr_store'[p] # zarr_store[p])
                => /\ Holder(p) \in Callers
                   /\ calls[Holder(p)].path = p
                   /\ calls[Holder(p)].force]_vars

\* a store written once and stamped no further, and a call with force=False
\* that found it and returned its path
C19_Witness ==
    \E c \in Callers :
        /\ Pc(c) = "done" /\ ~calls[c].force /\ calls[c].found
        /\ calls[c].ret = RunStorePath
        /\ Written(RunStorePath)
        /\ zarr_store[RunStorePath].runs = RawRuns(RunStorePath)
        /\ zarr_store[RunStorePath].stamp = 2

InsideOn(p) == {c \in Callers : Inside(c) /\ calls[c].path = p}

\* C20: in every interleaving at most one caller is between acquiring and
\* releasing the lock of a store path, the store is removed and written only
\* by the caller holding its lock, and the lock is free again whenever no
\* caller is inside, also after a call has raised, so a later caller can
\* acquire it.
C20_LockDiscipline ==
    /\ [](\A p \in StorePaths :
            /\ Cardinality(InsideOn(p)) <= 1
            /\ InsideOn(p) = {} => Holder(p) = NoCaller
            /\ \A c \in InsideOn(p) : Holder(p) = c)
    /\ [][\A p \in StorePaths :
            zarr_store'[p] # zarr_store[p]
                => /\ Holder(p) \in InsideOn(p)
                   /\ Holder(p) \in InsideOn(p)']_vars

\* one caller has raised while writing and left a broken store behind, the
\* other caller has acquired the lock of the same path after it
C20_Witness ==
    \E c, d \in Callers :
        /\ c # d
        /\ Pc(c) = "raised" /\ calls[c].path = RunStorePath
        /\ zarr_store[RunStorePath].exists /\ ~zarr_store[RunStorePath].complete
        /\ calls[d].path = RunStorePath /\ Inside(d)
        /\ Holder(RunStorePath) = d

-----------------------------------------------------------------------------
(* Readers of a store: load_zarr and _load_zarr open it without the lock   *)

\* what xr.open_zarr(path) finds on disk
Opened(p) == [op |-> "open_zarr", status |-> "none", path |-> p, seen |-> zarr_store[p]]

\* services load_zarr: path = convert_nc_to_zarr(index, base_time) has
\* returned and released the lock; ds = xr.open_zarr(path) follows
LoadZarrOpen(c) ==
    /\ Pc(c) = "done"
    /\ calls[c].ret = RunStorePath
    /\ resp' = Opened(calls[c].ret)
    /\ calls' = [calls EXCEPT ![c] = NoCall]
    /\ UNCHANGED <<index, base_time, forecast_time, lat, lon, field, zarr_store, file_lock>>

\* _load_zarr: xr.open_zarr(settings.ZARR_PATH / index / f"{index}.zarr")
\* at any moment of a request, no lock taken
LoadZarrUnified ==
    /\ resp' = Opened(UnifiedStorePath)
    /\ UNCHANGED store

NextRead ==
    \/ NextIngest
    \/ \E c \in Callers : Idle /\ LoadZarrOpen(c)
    \/ Idle /\ LoadZarrUnified

SpecRead == InitIngest /\ [][NextRead]_vars

HasOpened == resp.op = "open_zarr"

\* C21: a reader that opens a store without the lock, while writers ingest or
\* force-rebuild it, finds the store either as it was before any ingestion
\* (never written) or whole after a complete write; it never finds it absent
\* after a removal or partly written.
C21_NoPartialRead ==
    HasOpened =>
        \/ resp.seen.exists /\ resp.seen.complete
        \/ ~resp.seen.exists /\ resp.seen.stamp = 0

-----------------------------------------------------------------------------
(* Opening the store with retries: _load_zarr and utils load_zarr          *)

\* retries = 3
Retries == 3

LoadFns == {"_load_zarr", "load_zarr"}

\* what one xr.open_zarr call does: it returns the dataset, or raises
\* PermissionError (store in use), KeyError (no consolidated metadata) or
\* FileNotFoundError (no store)
OpenOutcomes == {"ok", "PermissionError", "KeyError", "FileNotFoundError"}

Last(s) == s[Len(s)]

\* the opens of one pass through the try block: _load_zarr opens with
\* consolidated=True and, on any exception, again with consolidated=False;
\* load_zarr opens once
TryOpen(fn, o1, o2) == IF fn = "_load_zarr" /\ o1 # "ok" THEN <<o1, o2>> ELSE <<o1>>

\* Variant of the test in the except branch that never gives up
LastAttemptNever(attempt) == FALSE

\* if attempt == retries - 1: raise
LastAttempt(attempt) == attempt = Retries - 1

\* the call is entered: retries, delay_sec, the first pass is about to start
LoadZarrCall(fn) ==
    /\ resp' = [op |-> fn, status |-> "running", attempt |-> 0, tries |-> <<>>,
                slept |-> 0, ds |-> "none", err |-> "none"]
    /\ UNCHANGED store

\* one pass of for attempt in range(retries): the opens, then break and
\* return ds, or the except branch (raise, or time.sleep(delay_sec) and the
\* next pass), or an exception other than PermissionError leaving the call;
\* a loop that runs out without break reaches return ds with ds unbound
LoadZarrAttempt(o1, o2) ==
    /\ resp.op \in LoadFns
    /\ resp.status = "running"
    /\ LET opens == TryOpen(resp.op, o1, o2)
           out == Last(opens)
           seen == [resp EXCEPT !.tries = resp.tries \o opens]
       IN resp' = IF out = "ok"
                      THEN [seen EXCEPT !.status = "returned", !.ds = "ds"]
                  ELSE IF out # "PermissionError"
                      THEN [seen EXCEPT !.status = "raised", !.err = out]
                  ELSE IF LastAttempt(resp.attempt)
                      THEN [seen EXCEPT !.status = "raised", !.err = out]
                  ELSE IF resp.attempt + 1 < Retries
                      THEN [seen EXCEPT !.attempt = resp.attempt + 1,
                                        !.slept = resp.slept + 1]
                  ELSE [seen EXCEPT !.attempt = resp.attempt + 1,
                                    !.slept = resp.slept + 1,
                                    !.status = "raised", !.err = "UnboundLocalError"]
    /\ UNCHANGED store

InitRetry ==
    /\ index = "pof"
    /\ base_time = <<>>
    /\ forecast_time = <<>>
    /\ lat = <<0>>
    /\ lon = <<0>>
    /\ field = <<>>
    /\ DiskAtRest
    /\ resp = NoResp

NextRetry ==
    \/ \E fn \in LoadFns : Idle /\ LoadZarrCall(fn)
    \/ \E o1, o2 \in OpenOutcomes : LoadZarrAttempt(o1, o2)

\* the loop runs synchronously in the request: every open returns or raises
\* and every sleep ends, so a pass that can be made is made
SpecRetry ==
    InitRetry /\ [][NextRetry]_vars /\ WF_vars(\E o1, o2 \in OpenOutcomes : LoadZarrAttempt(o1, o2))

Loading == resp.op \in LoadFns

LoadEnded == Loading /\ resp.status \in {"returned", "raised"}

\* opens one pass can make
OpensPerPass(fn) == IF fn = "_load_zarr" THEN 2 ELSE 1

Successes(s) == Cardinality({i \in 1..Len(s) : s[i] = "ok"})

\* C22 as stated: the store is opened at most 3 times per call, the call
\* returns the dataset of the first successful open, and it raises only
\* after a third consecutive failure.
C22_AtMostThreeOpens ==
    Loading =>
        /\ Len(resp.tries) <= Retries
        /\ resp.status = "returned" => resp.ds = "ds" /\ Last(resp.tries) = "ok"
        /\ resp.status = "raised" => resp.attempt = Retries - 1

\* C22, amended: the call makes at most 3 passes with one fixed delay between
\* consecutive passes; a pass opens the store once, and in _load_zarr once
\* more (unconsolidated, without delay) when the first open raised anything,
\* so at most 6 opens in _load_zarr and 3 in load_zarr; the call returns the
\* dataset of the first successful open; a PermissionError ending a pass is
\* retried and raised after the third pass; any other exception ending a pass
\* is raised at once; the call always ends by returning a dataset or raising.
C22_BoundedRetry ==
    /\ [](Loading =>
            /\ resp.attempt < Retries
            /\ resp.slept = resp.attempt
            /\ Len(resp.tries) <= OpensPerPass(resp.op) * (resp.attempt + 1)
            /\ resp.status = "running" => resp.ds = "none" /\ Successes(resp.tries) = 0
            /\ resp.status = "returned"
                  => /\ resp.ds = "ds"
                     /\ Last(resp.tries) = "ok"
                     /\ Successes(resp.tries) = 1
            /\ resp.status = "raised"
                  => /\ resp.ds = "none"
                     /\ resp.err = Last(resp.tries)
                     /\ resp.err \in OpenOutcomes \ {"ok"}
                     /\ resp.err = "PermissionError" => resp.attempt = Retries - 1)
    /\ (Loading ~> LoadEnded)

\* _load_zarr returns the dataset in its third pass, after two passes ended
\* by PermissionError, having slept twice and opened the store six times
C22_Witness ==
    /\ resp.op = "_load_zarr"
    /\ resp.status = "returned"
    /\ resp.slept = 2
    /\ resp.tries = <<"PermissionError", "PermissionError", "KeyError", "PermissionError",
                      "KeyError", "ok">>

-----------------------------------------------------------------------------
(* Waiting for the lock                                                    *)

\* FileLock(lock_path) is entered with the default timeout: the caller polls
\* the lock until it is free, so a caller that can take the lock takes it.
\* The test under the lock, the removal and the release after the sleep end
\* by themselves; nothing is assumed of how long reading the raw file and
\* writing the store (xr.open_dataset, to_zarr) take
SpecLock ==
    /\ InitIngest
    /\ [][NextIngest]_vars
    /\ \A c \in Callers :
          /\ WF_vars(AcquireLock(c))
          /\ WF_vars(CheckStore(c))
          /\ WF_vars(RemoveStore(c))
          /\ WF_vars(ReleaseLock(c))

Waiting(c) == Pc(c) = "acquire"

-----------------------------------------------------------------------------
(* Building the consolidated store: merge_netcdf_to_zarr                   *)

\* raw files of one merge
MaxFiles == 3

\* first value of a raw file's time axis
RawTimes == {At(BaseDay, 0), At(BaseDay, 12), At(BaseDay + 1, 0)}

RawVars == {{"v"}, {"v", "w"}}

RawDims == {<<"time", "lat", "lon">>, <<"time", "lon", "lat">>}

RawFiles == [time0 : RawTimes, vars : RawVars, dims : RawDims]

Datasets == {"pof", "fopi"}

\* _extract_base_time: floor to day for 'pof'
ExtractBaseTime(time0, idx) == IF idx = "pof" THEN FloorD(time0) ELSE time0

\* _check_consistency passes (otherwise it raises ValueError)
CheckConsistency(ds, expected_vars, expected_dims) ==
    ds.vars = expected_vars /\ ds.dims = expected_dims

\* _write_zarr: mode='w' for the first file, append_dim='base_time' after it
WriteZarr(axis, bt, first) == IF first THEN <<bt>> ELSE Append(axis, bt)

\* files = _list_nc_files(data_path); expected_vars = expected_dims = None
MergeNetcdfToZarr(files) ==
    /\ resp' = [op |-> "merge_netcdf_to_zarr", status |-> "running", files |-> files,
                i |-> 0, before |-> base_time, err |-> "none"]
    /\ UNCHANGED store

Merging == resp.op = "merge_netcdf_to_zarr"

\* one pass of for i, file in enumerate(files, start=1)
MergeFile ==
    /\ Merging
    /\ resp.status = "running"
    /\ resp.i < Len(resp.files)
    /\ LET i == resp.i + 1
           ds == resp.files[i]
           first == resp.files[1]
       IN IF i > 1 /\ ~CheckConsistency(ds, first.vars, first.dims)
          THEN /\ resp' = [resp EXCEPT !.i = i, !.status = "raised", !.err = "ValueError"]
               /\ UNCHANGED base_time
          ELSE /\ base_time' = WriteZarr(base_time, ExtractBaseTime(ds.time0, index), i = 1)
               /\ resp' = [resp EXCEPT !.i = i]
    /\ UNCHANGED <<index, forecast_time, lat, lon, field, zarr_store, file_lock, calls>>

\* _consolidate_metadata(output_zarr_path), which needs a store to be there
MergeConsolidate ==
    /\ Merging
    /\ resp.status = "running"
    /\ resp.i = Len(resp.files)
    /\ resp' = IF base_time = <<>>
                  THEN [resp EXCEPT !.status = "raised", !.err = "PathNotFoundError"]
                  ELSE [resp EXCEPT !.status = "done"]
    /\ UNCHANGED store

InitMerge ==
    /\ index \in Datasets
    /\ base_time \in {<<>>, <<At(BaseDay - 1, 0)>>}
    /\ forecast_time = <<>>
    /\ lat = <<0>>
    /\ lon = <<0>>
    /\ field = <<>>
    /\ DiskAtRest
    /\ resp = NoResp

NextMerge ==
    \/ \E files \in SeqsUpTo(RawFiles, MaxFiles) : Idle /\ MergeNetcdfToZarr(files)
    \/ MergeFile
    \/ MergeConsolidate

SpecMerge == InitMerge /\ [][NextMerge]_vars

\* C24: after merge_netcdf_to_zarr has processed its raw files, no run label
\* occurs twice on the run axis of the store.
C24_UniqueRunLabels ==
    (Merging /\ resp.status = "done") =>
        \A i, j \in 1..Len(base_time) : base_time[i] = base_time[j] => i = j

\* C25: when a file after the first fails the consistency check, the store
\* is exactly as it was before merge_netcdf_to_zarr started.
C25_NoPartialWrite ==
    (Merging /\ resp.status = "raised" /\ resp.err = "ValueError") =>
        base_time = resp.before

-----------------------------------------------------------------------------
(* Directory scan: parse_filename and scan_storage_files                   *)

\* A file name is its text before the digits, the digit fields (four digits
\* for the first, two for the others), the text joining them, the text after
\* them and the extension
FileName(head, fields, join, tail, ext) ==
    [head |-> head, fields |-> fields, join |-> join, tail |-> tail, ext |-> ext]

\* re.IGNORECASE on the letters of the names in use
Lower(s) ==
    CASE s = "FOPI_" -> "fopi_"
      [] s = "POF_V2_" -> "pof_v2_"
      [] s = "_FC" -> "_fc"
      [] s = ".NC" -> ".nc"
      [] OTHER -> s

\* re.match(r"fopi_(\d{10})\.nc$", filename, re.IGNORECASE)
MatchFopi(n) ==
    /\ Lower(n.head) = "fopi_"
    /\ Len(n.fields) = 4 /\ n.join = ""
    /\ n.tail = ""
    /\ Lower(n.ext) = ".nc"

\* re.match(r"POF_V2_(\d{4})_(\d{2})_(\d{2})_FC\.nc$", filename, re.IGNORECASE)
MatchPof(n) ==
    /\ Lower(n.head) = "pof_v2_"
    /\ Len(n.fields) = 3 /\ n.join = "_"
    /\ Lower(n.tail) = "_fc"
    /\ Lower(n.ext) = ".nc"

IsLeap(y) == (y % 4 = 0 /\ y % 100 # 0) \/ y % 400 = 0

DaysInMonth(y, m) ==
    IF m = 2 THEN (IF IsLeap(y) THEN 29 ELSE 28)
    ELSE IF m \in {4, 6, 9, 11} THEN 30 ELSE 31

\* datetime(year, month, day, hour) is constructed (otherwise ValueError)
ValidDateTime(y, m, d, h) ==
    /\ y \in 1..9999
    /\ m \in 1..12
    /\ d \in 1..DaysInMonth(y, m)
    /\ h \in 0..23

Parsed(dataset, y, m, d, h) ==
    [status |-> "ok", dataset |-> dataset, err |-> "none",
     dt |-> [year |-> y, month |-> m, day |-> d, hour |-> h]]

ParseRaises(err) ==
    [status |-> "raised", dataset |-> "none", err |-> err,
     dt |-> [year |-> 0, month |-> 0, day |-> 0, hour |-> 0]]

\* parse_filename: every error is a ValueError; err tells where it is raised
ParseFilename(n) ==
    IF MatchFopi(n)
    THEN IF ValidDateTime(n.fields[1], n.fields[2], n.fields[3], n.fields[4])
         THEN Parsed("Fopi", n.fields[1], n.fields[2], n.fields[3], n.fields[4])
         ELSE ParseRaises("strptime")
    ELSE IF MatchPof(n)
    THEN IF ValidDateTime(n.fields[1], n.fields[2], n.fields[3], 0)
         THEN Parsed("Pof", n.fields[1], n.fields[2], n.fields[3], 0)
         ELSE ParseRaises("datetime")
    ELSE ParseRaises("Unrecognized filename format")

\* Variant of the extension test that ignores case
EndsWithNcAnyCase(n) == Lower(n.ext) = ".nc"

\* filename.endswith(".nc")
EndsWithNc(n) == n.ext = ".nc"

\* os.path.join(directory, filename)
JoinPath(directory, n) == [directory |-> directory, filename |-> n]

\* for filename in os.listdir(directory): ... except Exception: skip
RECURSIVE ScanFrom(_, _, _, _)
ScanFrom(directory, listing, k, entries) ==
    IF k > Len(listing) THEN entries
    ELSE LET n == listing[k]
             p == ParseFilename(n)
         IN IF EndsWithNc(n) /\ p.status = "ok"
            THEN ScanFrom(directory, listing, k + 1,
                          Append(entries, [dataset |-> p.dataset, dt |-> p.dt,
                                           path |-> JoinPath(directory, n)]))
            ELSE ScanFrom(directory, listing, k + 1, entries)

\* scan_storage_files(directory), listing being what os.listdir returns
ScanStorageFiles(listing) ==
    /\ resp' = [op |-> "scan_storage_files", status |-> "returned", listing |-> listing,
                entries |-> ScanFrom("storage", listing, 1, <<>>)]
    /\ UNCHANGED store

\* parse_filename(filename) called on its own
ParseFilenameCall(n) ==
    /\ resp' = [op |-> "parse_filename", filename |-> n, out |-> ParseFilename(n),
                status |-> IF ParseFilename(n).status = "ok" THEN "returned" ELSE "raised"]
    /\ UNCHANGED store

\* names in one directory
MaxDir == 2

FileNames ==
    { FileName("fopi_", <<2025, 7, 10, 0>>, "", "", ".nc"),
      FileName("FOPI_", <<2025, 7, 10, 12>>, "", "", ".nc"),
      FileName("fopi_", <<2025, 2, 30, 0>>, "", "", ".nc"),
      FileName("fopi_", <<2025, 7, 10, 24>>, "", "", ".nc"),
      FileName("fopi_", <<2025, 7, 10>>, "", "", ".nc"),
      FileName("fopi_", <<2025, 7, 10, 0>>, "", "", ".NC"),
      FileName("fopi_", <<2025, 7, 10, 0>>, "", "", ".txt"),
      FileName("POF_V2_", <<2025, 7, 10>>, "_", "_FC", ".nc"),
      FileName("pof_v2_", <<2024, 2, 29>>, "_", "_fc", ".nc"),
      FileName("POF_V2_", <<2025, 2, 29>>, "_", "_FC", ".nc"),
      FileName("POF_V2_", <<2025, 13, 1>>, "_", "_FC", ".nc"),
      FileName("POF_V2_", <<0, 1, 1>>, "_", "_FC", ".nc"),
      FileName("POF_V2_", <<2025, 7, 10>>, "_", "", ".nc"),
      FileName("POF_V2_", <<2025, 7, 10>>, "", "_FC", ".nc"),
      FileName("era5_", <<2025, 7, 10>>, "_", "_FC", ".nc"),
      FileName("POF_V2_", <<2025, 7, 10>>, "_", "_FC", ".txt") }

\* os.listdir: distinct names, in any order
Listings == {l \in SeqsUpTo(FileNames, MaxDir) : \A i, j \in 1..Len(l) : l[i] = l[j] => i = j}

InitScan ==
    /\ index = "pof"
    /\ base_time = <<>>
    /\ forecast_time = <<>>
    /\ lat = <<0>>
    /\ lon = <<0>>
    /\ field = <<>>
    /\ DiskAtRest
    /\ resp = NoResp

NextScan ==
    \/ \E l \in Listings : Idle /\ ScanStorageFiles(l)
    \/ \E n \in FileNames : Idle /\ ParseFilenameCall(n)

SpecScan == InitScan /\ [][NextScan]_vars

\* the name has the .nc extension and parse_filename accepts it
Accepted(n) == n.ext = ".nc" /\ ParseFilename(n).status = "ok"

EntriesOf(n) == {k \in 1..Len(resp.entries) : resp.entries[k].path.filename = n}

\* the date and hour a name encodes; no hour stands for midnight
Encodes(n, dt) ==
    /\ dt.year = n.fields[1] /\ dt.month = n.fields[2] /\ dt.day = n.fields[3]
    /\ dt.hour = (IF Len(n.fields) = 4 THEN n.fields[4] ELSE 0)

\* C26: scan_storage_files returns exactly one (dataset, run_time, path) entry
\* for each listed name that has the .nc extension and is accepted by
\* parse_filename, no entry for any other name, and never raises, also for a
\* name that matches a pattern but encodes an impossible date; parse_filename
\* returns for an accepted name the one run_time the name encodes, a real
\* calendar date, and raises for every name matching neither pattern.
C26_Scan ==
    /\ resp.op = "scan_storage_files" =>
          /\ resp.status = "returned"
          /\ \A k \in 1..Len(resp.entries) :
                /\ resp.entries[k].path.filename \in Range(resp.listing)
                /\ resp.entries[k].path.directory = "storage"
          /\ \A n \in Range(resp.listing) :
                IF Accepted(n)
                THEN /\ Cardinality(EntriesOf(n)) = 1
                     /\ \A k \in EntriesOf(n) :
                           /\ resp.entries[k].dataset = ParseFilename(n).dataset
                           /\ resp.entries[k].dt = ParseFilename(n).dt
                ELSE EntriesOf(n) = {}
    /\ resp.op = "parse_filename" =>
          /\ (~MatchFopi(resp.filename) /\ ~MatchPof(resp.filename))
                => resp.status = "raised"
          /\ resp.status = "returned"
                => /\ Encodes(resp.filename, resp.out.dt)
                   /\ resp.out.dt.month \in 1..12
                   /\ resp.out.dt.day \in 1..31
                   /\ resp.out.dt.hour \in 0..23
                   /\ resp.out.dataset = (IF Len(resp.filename.fields) = 4 THEN "Fopi" ELSE "Pof")
          /\ resp.status = "raised" => resp.out.status = "raised"

\* a listing of a name with an impossible date (30 February) and an accepted
\* upper-case name: the scan returns the one entry of the accepted name
C26_Witness ==
    /\ resp.op = "scan_storage_files"
    /\ resp.listing = << FileName("fopi_", <<2025, 2, 30, 0>>, "", "", ".nc"),
                         FileName("FOPI_", <<2025, 7, 10, 12>>, "", "", ".nc") >>
    /\ Len(resp.entries) = 1
    /\ resp.entries[1].dataset = "Fopi"
    /\ resp.entries[1].dt = [year |-> 2025, month |-> 7, day |-> 10, hour |-> 12]

-----------------------------------------------------------------------------
(* Longitude wrap: _wrap_longitudes_if_needed and the step of load_zarr    *)

\* (lons + 180) % 360 - 180, in whole degrees
ShiftLon(x) == ((x + 180) % 360) - 180

\* np.argsort(shifted_lons): positions in ascending order of value, equal
\* values in their stored order
RECURSIVE ArgSortFrom(_, _)
ArgSortFrom(s, left) ==
    IF left = {} THEN <<>>
    ELSE LET i == CHOOSE i \in left :
                    \A j \in left : s[i] < s[j] \/ (s[i] = s[j] /\ i <= j)
         IN <<i>> \o ArgSortFrom(s, left \ {i})

ArgSort(s) == ArgSortFrom(s, 1..Len(s))

\* index == "fopi" and 'lon' in ds.coords and ds.lon.max() > 180
NeedsWrap(idx, lons) == idx = "fopi" /\ lons # <<>> /\ SeqMax(lons) > 180

\* a dataset along lon: the coordinate and, per position, the data column
\* (named by the longitude it was stored under)
LonDataset(lons) == [lon |-> lons, column |-> lons]

\* ds.isel(lon=sort_idx) and the shifted, sorted values as the coordinate
WrapLongitudesIfNeeded(ds, idx) ==
    IF NeedsWrap(idx, ds.lon)
    THEN LET shifted_lons == MapSeq(ShiftLon, ds.lon)
             sort_idx == ArgSort(shifted_lons)
         IN [lon |-> [k \in 1..Len(sort_idx) |-> shifted_lons[sort_idx[k]]],
             column |-> [k \in 1..Len(sort_idx) |-> ds.column[sort_idx[k]]]]
    ELSE ds

WrapFns == {"_wrap_longitudes_if_needed", "load_zarr"}

\* the wrap applied to a dataset just opened, in the merge (fn =
\* "_wrap_longitudes_if_needed") or at the end of load_zarr
WrapLongitudesCall(fn, idx, lons) ==
    /\ resp' = [op |-> fn, status |-> "returned", index |-> idx, before |-> LonDataset(lons),
                after |-> WrapLongitudesIfNeeded(LonDataset(lons), idx)]
    /\ UNCHANGED store

\* points of a longitude axis
MaxLon == 3

\* stored longitudes, in degrees of [0, 360]
StoredLons == {0, 90, 180, 270, 359, 360}

\* stored axes: ascending, as a regular grid is written
StoredAxes ==
    {s \in SeqsUpTo(StoredLons, MaxLon) : s # <<>> /\ \A i \in 1..Len(s) - 1 : s[i] < s[i + 1]}

InitWrap ==
    /\ index \in Datasets
    /\ base_time = <<>>
    /\ forecast_time = <<>>
    /\ lat = <<0>>
    /\ lon \in StoredAxes
    /\ field = <<>>
    /\ DiskAtRest
    /\ resp = NoResp

NextWrap ==
    \E fn \in WrapFns : Idle /\ WrapLongitudesCall(fn, index, lon)

SpecWrap == InitWrap /\ [][NextWrap]_vars

Wrapped == resp.op \in WrapFns /\ resp.index = "fopi"

DistinctMod360(s) == \A i, j \in 1..Len(s) : s[i] % 360 = s[j] % 360 => i = j

\* C27: for a fopi axis stored in [0, 360], after the wrap every longitude
\* lies in [-180, 180), the axis is strictly increasing when the stored values
\* were distinct modulo 360, and each data column sits under the shifted value
\* of the longitude it was stored under; also when the largest stored value
\* is exactly 180.
C27_Normalized ==
    Wrapped =>
        LET out == resp.after
        IN /\ Len(out.lon) = Len(resp.before.lon)
           /\ \A k \in 1..Len(out.lon) :
                 /\ out.lon[k] >= 0 - 180 /\ out.lon[k] < 180
                 /\ out.lon[k] = ShiftLon(out.column[k])
           /\ Range(out.column) = Range(resp.before.column)
           /\ DistinctMod360(resp.before.lon)
                 => \A k \in 1..Len(out.lon) - 1 : out.lon[k] < out.lon[k + 1]

-----------------------------------------------------------------------------
(* Inventory lookup: get_records_by_datetime and get_nc_file_for_date      *)

\* a datetime of the inventory: calendar day, second of the day, microsecond
DbTime(day, sec, us) == [day |-> day, sec |-> sec, us |-> us]

\* The texts compared by the database are fixed-width and zero-padded, so a
\* text is the tuple of its numeric fields, the date first

\* how the DateTime column is stored: "%Y-%m-%d %H:%M:%S.%f"
StoredDateTime(t) == <<t.day, t.sec, t.us>>

\* Variant of the bound parameter rendered as a datetime at midnight
BindDateAsDateTime(day) == <<day, 0, 0>>

\* how a datetime.date compared with the column is bound: "%Y-%m-%d"
BindDate(day) == <<day>>

\* comparison of two texts: the first differing field decides, and a text
\* that is a proper prefix of the other is the lesser
RECURSIVE TextLt(_, _)
TextLt(a, b) ==
    IF b = <<>> THEN FALSE
    ELSE IF a = <<>> THEN TRUE
    ELSE IF Head(a) # Head(b) THEN Head(a) < Head(b)
    ELSE TextLt(Tail(a), Tail(b))

\* select(model).where(model.datetime > target_time.date(),
\*                     model.datetime < target_time.date() + timedelta(days=1))
SelectByDate(table, target_time) ==
    FilterSeq(LAMBDA r : /\ TextLt(BindDate(target_time.day), StoredDateTime(r.datetime))
                         /\ TextLt(StoredDateTime(r.datetime), BindDate(target_time.day + 1)),
              table)

\* session.exec(statement).one()
One(rows) ==
    IF Len(rows) = 1 THEN [status |-> "returned", err |-> "none", record |-> rows[1]]
    ELSE [status |-> "raised",
          err |-> IF rows = <<>> THEN "NoResultFound" ELSE "MultipleResultsFound",
          record |-> [id |-> 0, datetime |-> DbTime(0, 0, 0)]]

GetRecordsByDatetime(table, target_time) == One(SelectByDate(table, target_time))

\* get_nc_file_for_date(index, base_date) over the inventory table
GetNcFileForDate(table, target_time) ==
    /\ resp' = [op |-> "get_nc_file_for_date", table |-> table, target_time |-> target_time,
                status |-> GetRecordsByDatetime(table, target_time).status,
                out |-> GetRecordsByDatetime(table, target_time)]
    /\ UNCHANGED store

\* records of one dataset in the inventory
MaxRecords == 3

\* stamps around the requested date: the instant before it, its midnight,
\* its noon, its last instant and the next midnight
RecordTimes ==
    { DbTime(BaseDay - 1, SecPerDay - 1, 999999), DbTime(BaseDay, 0, 0),
      DbTime(BaseDay, 12 * SecPerHour, 0), DbTime(BaseDay, SecPerDay - 1, 999999),
      DbTime(BaseDay + 1, 0, 0) }

\* tables: rows with their primary keys
Tables ==
    {[i \in 1..Len(s) |-> [id |-> i, datetime |-> s[i]]] : s \in SeqsUpTo(RecordTimes, MaxRecords)}

TargetTimes == {DbTime(BaseDay, 0, 0), DbTime(BaseDay, 6 * SecPerHour, 0), DbTime(BaseDay - 1, 0, 0)}

InitLookup ==
    /\ index \in Datasets
    /\ base_time = <<>>
    /\ forecast_time = <<>>
    /\ lat = <<0>>
    /\ lon = <<0>>
    /\ field = <<>>
    /\ DiskAtRest
    /\ resp = NoResp

NextLookup ==
    \E table \in Tables, target_time \in TargetTimes : Idle /\ GetNcFileForDate(table, target_time)

SpecLookup == InitLookup /\ [][NextLookup]_vars

LookedUp == resp.op = "get_nc_file_for_date"

\* the records whose datetime falls on the requested calendar date
RecordsOnDate == {i \in 1..Len(resp.table) : resp.table[i].datetime.day = resp.target_time.day}

\* C28: for a request with any time of day on date D the lookup returns a
\* record exactly when exactly one record of the table falls on D, a record
\* stamped D 00:00:00 included, and then returns that record; it fails with
\* NoResultFound when none does and with MultipleResultsFound when two or
\* more do; it never returns a record of another date.
C28_LookupByDate ==
    LookedUp =>
        /\ resp.status = "returned" <=> Cardinality(RecordsOnDate) = 1
        /\ resp.status = "returned"
              => /\ \A i \in RecordsOnDate : resp.out.record = resp.table[i]
                 /\ resp.out.record.datetime.day = resp.target_time.day
        /\ Cardinality(RecordsOnDate) = 0 => resp.out.err = "NoResultFound"
        /\ Cardinality(RecordsOnDate) >= 2 => resp.out.err = "MultipleResultsFound"

\* a request for 06:00 on D over records stamped the instant before D,
\* D 00:00:00 and the next midnight: the record of D 00:00:00 is returned
C28_Witness ==
    /\ LookedUp
    /\ resp.target_time = DbTime(BaseDay, 6 * SecPerHour, 0)
    /\ Len(resp.table) = 3
    /\ resp.table[1].datetime = DbTime(BaseDay - 1, SecPerDay - 1, 999999)
    /\ resp.table[2].datetime = DbTime(BaseDay, 0, 0)
    /\ resp.table[3].datetime = DbTime(BaseDay + 1, 0, 0)
    /\ resp.status = "returned"
    /\ resp.out.record.id = 2

-----------------------------------------------------------------------------
(* Pooled and per-date exceedance                                          *)

\* the by_date counts of threshold j, one per date
CountsAt(j) == [i \in 1..Len(resp.by_date.dates) |-> resp.by_date.count[i][j]]

NonIncreasing(s) == \A j \in 1..Len(s) - 1 : s[j] >= s[j + 1]

\* C29: in every exceedance_frequency response the by_date totals add up to
\* the overall total, for every threshold the by_date counts add up to the
\* overall count, every count lies between 0 and its total, the thresholds are
\* ascending without repeats and the counts non-increasing along them, and
\* the by_date dates are pairwise distinct.
C29_PooledMatchesByDate ==
    Served("exceedance_frequency") =>
        LET thr == resp.thresholds
            bd == resp.by_date
        IN /\ SumSeq(bd.total) = resp.overall.total
           /\ Len(resp.overall.count) = Len(thr)
           /\ \A j \in 1..Len(thr) :
                 /\ SumSeq(CountsAt(j)) = resp.overall.count[j]
                 /\ 0 <= resp.overall.count[j]
                 /\ resp.overall.count[j] <= resp.overall.total
           /\ \A i \in 1..Len(bd.dates) :
                 /\ Len(bd.count[i]) = Len(thr)
                 /\ NonIncreasing(bd.count[i])
                 /\ \A j \in 1..Len(thr) : 0 <= bd.count[i][j] /\ bd.count[i][j] <= bd.total[i]
           /\ \A j \in 1..Len(thr) - 1 : thr[j] < thr[j + 1]
           /\ NonIncreasing(resp.overall.count)
           /\ \A i, k \in 1..Len(bd.dates) : bd.dates[i] = bd.dates[k] => i = k

\* three runs on two dates, thresholds 1, 0, 1 de-duplicated to 0 and 1; both
\* dates hold cells at or above the thresholds and the first date a cell below
C29_Witness ==
    /\ Served("exceedance_frequency")
    /\ Len(base_time) = 3
    /\ resp.thresholds = <<0, Hundred>>
    /\ Len(resp.by_date.dates) = 2
    /\ resp.by_date.total[1] >= 3
    /\ resp.by_date.count[1][1] = 2
    /\ resp.by_date.count[2][1] >= 1
    /\ resp.overall.count[1] < resp.overall.total

-----------------------------------------------------------------------------
(* Time resolution across endpoints                                        *)

\* what heatmap generation selects for a request: the stored position of the
\* run and the lead index, ok when every step succeeds
HeatmapSelects(b, f) ==
    LET req == NormalizeTimes(b, f)
        mb == MatchBaseTime(base_time, req[1])
        mf == MatchForecastTime(base_time, forecast_time, mb.val, req[2])
        sel == SelBaseTime(base_time, mb.val)
        idx == SliceField(base_time, forecast_time, mb.val, mf.val)
    IN [base_ok |-> mb.ok /\ sel # <<>>,
        ok |-> mb.ok /\ mf.ok /\ idx # 0,
        run |-> IF sel = <<>> THEN 0 ELSE sel[1],
        idx |-> idx]

\* what the tooltip endpoint selects for the same request
TooltipSelects(b, f) ==
    LET req == NormalizeTimes(b, f)
        sel == SelBaseTime(NaiveUtcNdarray(base_time), req[1])
        fcst_vals == IF sel = <<>> THEN <<>> ELSE NaiveUtcNdarray(forecast_time[sel[1]])
        matches == Where(fcst_vals, req[2])
    IN [base_ok |-> sel # <<>>,
        ok |-> sel # <<>> /\ matches # <<>>,
        run |-> IF sel = <<>> THEN 0 ELSE sel[1],
        idx |-> IF matches = <<>> THEN 0 ELSE matches[1]]

\* the lowest lead index of a run whose valid time equals the request
LowestLead(run, f) ==
    LET hits == Where(forecast_time[run], ParseNaive(f))
    IN IF hits = <<>> THEN 0 ELSE hits[1]

\* C30: for every store and request, heatmap generation and the tooltip
\* endpoint both fail or both select the same run and the same lead index,
\* the lowest one whose valid time equals the request; and a base_time that
\* by_date resolves to a run is accepted by heatmap generation and tooltip.
C30_EndpointsAgree ==
    /\ resp.op \in {"heatmap", "tooltip"} =>
          LET h == HeatmapSelects(resp.req[1], resp.req[2])
              t == TooltipSelects(resp.req[1], resp.req[2])
          IN /\ resp.status = "200" <=> (IF resp.op = "heatmap" THEN h.ok ELSE t.ok)
             /\ h.ok <=> t.ok
             /\ (h.ok /\ t.ok)
                   => /\ h.run = t.run
                      /\ h.idx = t.idx
                      /\ h.idx = LowestLead(h.run, resp.req[2])
                      /\ resp.idx = h.idx
    /\ Served("by_date") =>
          LET f == IsoUtc(At(BaseDay, 0))
          IN /\ HeatmapSelects(resp.req[1], f).base_ok
             /\ TooltipSelects(resp.req[1], f).base_ok

====
